---- MODULE Spec2Model ----
(***************************************************************************)
(* Passport photo backend: the crop geometry, the colour resolver, the     *)
(* enhancer and the process_passport_photo orchestrator of                 *)
(* backend/utils/process_photo.py; the grid layout and the two A4 sheet    *)
(* builders of backend/utils/a4_generator.py; the /process handler of      *)
(* backend/main.py and the rate limiter of backend/middleware.py.          *)
(*                                                                         *)
(* Ten specifications share the variables below:                           *)
(*   SpecCrop      crop_centered_square_from_bbox applied to bounded       *)
(*                 source sizes, boxes and scales                          *)
(*   SpecColor     _parse_color applied to bounded colour tokens           *)
(*   SpecPipeline  one invocation of process_passport_photo, stage by      *)
(*                 stage, with a fault possible in every stage             *)
(*   SpecLayout    calculate_grid_layout of backend/utils/a4_generator.py  *)
(*                 applied to bounded canvases, cells, margins, spacings   *)
(*   SpecSheet     one invocation of make_a4_sheet or                      *)
(*                 make_a4_sheet_multiple, cell by cell                    *)
(*   SpecEnhance   enhance_image_quality applied to bounded images         *)
(*   SpecValidate  validate_image applied to images around its thresholds  *)
(*   SpecProcess   one POST /process through the handler of main.py        *)
(*   SpecRateLimit one RateLimitMiddleware instance of middleware.py       *)
(*                 serving requests of several clients as time passes      *)
(*   SpecConcurrent two invocations of process_passport_photo or           *)
(*                 make_a4_sheet running interleaved                       *)
(***************************************************************************)
EXTENDS Integers, Sequences, FiniteSets, TLC

VARIABLES
    cropPc,     \* SpecCrop: "call" before the crop is computed, "done" after
    cropIn,     \* SpecCrop: source size, bounding box and scale
    cropOut,    \* SpecCrop: the (left, top, right, bottom) handed to img.crop
    colorPc,    \* SpecColor: "call" / "done"
    colorIn,    \* SpecColor: the colour token c
    colorOut,   \* SpecColor: the returned tuple, or the raised exception
    pc,         \* SpecPipeline: the statement process_passport_photo is at
    pil_img,    \* the caller's image
    opts,       \* bg_color, face_scale, brightness, contrast, enhance_quality, crop_data
    env,        \* REMBG_AVAILABLE and what the two capabilities answer
    img,        \* pil_img.convert('RGBA'), rotated for a manual crop
    cropped,    \* the crop
    fg_with_alpha, \* what remove_background_rembg returned
    bg_rgba,    \* the resolved backdrop
    composed,   \* Image.alpha_composite(background, fg_with_alpha)
    final_rgb,  \* composed.convert('RGB'), enhanced
    result,     \* what the call returned
    trace,      \* the stages that ran, in order
    gridPc,     \* SpecLayout: "call" / "done"
    gridIn,     \* SpecLayout: canvas size, photo size, margin, spacing
    gridOut,    \* SpecLayout: cols, rows, x_offset, y_offset or the raise
    enhPc,      \* SpecEnhance: "call" / "done"
    enhIn,      \* SpecEnhance: image, brightness, contrast, faulting enhancer
    enhOut,     \* SpecEnhance: the returned image
    sheetPc,    \* SpecSheet: the statement the sheet builder is at
    sheetArgs,  \* fn, passport_images, copies, margin, spacing, add_cut_lines
    caller_images, \* the caller's image objects as they are now
    photo,      \* make_a4_sheet: the working copy, resized to the cell
    layout,     \* what calculate_grid_layout returned
    row,        \* the outer loop variable
    col,        \* the inner loop variable
    photos_placed,
    photo_index,
    sheet,      \* the pastes made on the A4 canvas, in order
    guides,     \* the guide lines drawn on it
    pdf,        \* the returned buffer
    sheetTrace, \* the statements that raised, in order
    valPc,      \* SpecValidate: "call" / "done"
    valIn,      \* SpecValidate: the image and whether a statement raises
    valOut,     \* SpecValidate: the returned (is_valid, error_message)
    reqPc,      \* SpecProcess: the statement the /process handler is at
    reqIn,      \* SpecProcess: the request
    reqOut,     \* SpecProcess: the response
    rlCfg,      \* SpecRateLimit: self.calls and self.period
    clients,    \* SpecRateLimit: self.clients
    now,        \* SpecRateLimit: what time.time() returns
    rlLog,      \* SpecRateLimit: the requests served, in order
    module,     \* SpecConcurrent: the module-level names of process_photo.py
    calls       \* SpecConcurrent: the locals of each invocation

vars == <<cropPc, cropIn, cropOut, colorPc, colorIn, colorOut, pc, pil_img,
          opts, env, img, cropped, fg_with_alpha, bg_rgba, composed,
          final_rgb, result, trace, gridPc, gridIn, gridOut, enhPc, enhIn,
          enhOut, sheetPc, sheetArgs, caller_images, photo, layout, row, col,
          photos_placed, photo_index, sheet, guides, pdf, sheetTrace, valPc,
          valIn, valOut, reqPc, reqIn, reqOut, rlCfg, clients, now, rlLog,
          module, calls>>

cropVars  == <<cropPc, cropIn, cropOut>>
colorVars == <<colorPc, colorIn, colorOut>>
pipeVars  == <<pc, pil_img, opts, env, img, cropped, fg_with_alpha, bg_rgba,
               composed, final_rgb, result, trace>>
gridVars  == <<gridPc, gridIn, gridOut>>
enhVars   == <<enhPc, enhIn, enhOut>>
sheetVars == <<sheetPc, sheetArgs, caller_images, photo, layout, row, col,
               photos_placed, photo_index, sheet, guides, pdf, sheetTrace>>
valVars   == <<valPc, valIn, valOut>>
reqVars   == <<reqPc, reqIn, reqOut>>
rlVars    == <<rlCfg, clients, now, rlLog>>
conVars   == <<module, calls>>
\* the groups no function of process_photo.py or a4_generator.py touches
svcVars   == <<valVars, reqVars, rlVars, conVars>>

Max(a, b) == IF a >= b THEN a ELSE b
Min(a, b) == IF a <= b THEN a ELSE b

(***************************************************************************)
(* Bounds                                                                  *)
(***************************************************************************)
MaxDim      == 4    \* source width and height range over 1..MaxDim
MaxBox      == 2    \* bounding box width and height range over 1..MaxBox
MaxScaleNum == 8    \* scale = n / ScaleDen for n in 1..MaxScaleNum
MaxTupleLen == 5    \* colour tuples and lists have 0..MaxTupleLen elements

\* Scales are multiples of 1/4: they are exact binary floats, so that
\* max(w, h) * scale below is the float product the code computes.
ScaleDen == 4

(***************************************************************************)
(* crop_centered_square_from_bbox                                          *)
(***************************************************************************)
\* crop_size = int(max(w, h) * scale); int() truncates, the product is >= 0
crop_size(w, h, scaleNum) == (Max(w, h) * scaleNum) \div ScaleDen

\* One axis of the crop: lo = int(max(c - crop_size / 2, 0)) with
\* c = pos + len / 2, hi = int(min(lo + crop_size, extent)), then the
\* adjustment.  c - crop_size/2 = (2*pos + len - crop_size) / 2.
crop_axis_noshift(pos, len, cs, extent) ==
    LET lo == Max(2 * pos + len - cs, 0) \div 2
        hi == Min(lo + cs, extent)
    IN  <<lo, hi>>

crop_axis_minmax(pos, len, cs, extent) ==
    LET lo == 0 - ((0 - Min(2 * pos + len - cs, 0)) \div 2)
        hi == Min(lo + cs, extent)
    IN  IF hi - lo < cs
        THEN IF lo = 0 THEN <<lo, Min(cs, extent)>>
                       ELSE <<Max(0, hi - cs), hi>>
        ELSE <<lo, hi>>

crop_axis(pos, len, cs, extent) ==
    LET lo == Max(2 * pos + len - cs, 0) \div 2
        hi == Min(lo + cs, extent)
    IN  IF hi - lo < cs
        THEN IF lo = 0 THEN <<lo, Min(cs, extent)>>
                       ELSE <<Max(0, hi - cs), hi>>
        ELSE <<lo, hi>>

\* the region (left, top, right, bottom) passed to img_pil.crop
crop_centered_square_from_bbox(width, height, x, y, w, h, scaleNum) ==
    LET cs == crop_size(w, h, scaleNum)
        ax == crop_axis(x, w, cs, width)
        ay == crop_axis(y, h, cs, height)
    IN  <<ax[1], ay[1], ax[2], ay[2]>>

CropInputs ==
    [width : 1..MaxDim, height : 1..MaxDim,
     x : (-1)..MaxDim, y : (-1)..MaxDim,
     w : 1..MaxBox, h : 1..MaxBox, scaleNum : 1..MaxScaleNum]

NoRegion == <<0, 0, 0, 0>>

InitIdleCrop ==
    /\ cropPc = "idle"
    /\ cropIn = [width |-> 1, height |-> 1, x |-> 0, y |-> 0, w |-> 1,
                 h |-> 1, scaleNum |-> 1]
    /\ cropOut = NoRegion

InitCrop ==
    /\ cropPc = "call"
    /\ cropIn \in CropInputs
    /\ cropOut = NoRegion

CropCall ==
    /\ cropPc = "call"
    /\ cropOut' = crop_centered_square_from_bbox(cropIn.width, cropIn.height,
                      cropIn.x, cropIn.y, cropIn.w, cropIn.h, cropIn.scaleNum)
    /\ cropPc' = "done"
    /\ UNCHANGED <<cropIn, colorVars, pipeVars, gridVars, enhVars, sheetVars, svcVars>>

(***************************************************************************)
(* _parse_color                                                            *)
(*                                                                         *)
(* A Python str is a sequence of one-character strings.  A tuple or list   *)
(* is a sequence of elements <<tag, value>>: <<"int", n>> is the integer   *)
(* n, <<"bad", 0>> is an element int() raises on (None, 'x').              *)
(***************************************************************************)
named_colors ==
    { <<<<"w","h","i","t","e">>, <<255, 255, 255>>>>,
      <<<<"b","l","u","e">>, <<0, 102, 204>>>>,
      <<<<"l","i","g","h","t","_","b","l","u","e">>, <<173, 216, 230>>>>,
      <<<<"r","e","d">>, <<204, 0, 0>>>>,
      <<<<"l","i","g","h","t","_","r","e","d">>, <<255, 182, 193>>>>,
      <<<<"b","l","a","c","k">>, <<0, 0, 0>>>>,
      <<<<"g","r","a","y">>, <<128, 128, 128>>>>,
      <<<<"l","i","g","h","t","_","g","r","a","y">>, <<211, 211, 211>>>> }

White == <<255, 255, 255, 255>>

IsSpace(ch) == ch = " "

\* str.lower() on the characters the tokens are drawn from
LowerChar(ch) ==
    CASE ch = "A" -> "a" [] ch = "B" -> "b" [] ch = "C" -> "c"
      [] ch = "D" -> "d" [] ch = "E" -> "e" [] ch = "F" -> "f"
      [] ch = "G" -> "g" [] ch = "L" -> "l" [] ch = "U" -> "u"
      [] ch = "R" -> "r" [] ch = "W" -> "w"
      [] OTHER -> ch

Lower(s) == [i \in 1..Len(s) |-> LowerChar(s[i])]

RECURSIVE LStrip(_)
LStrip(s) == IF s # <<>> /\ IsSpace(Head(s)) THEN LStrip(Tail(s)) ELSE s

RECURSIVE RStrip(_)
RStrip(s) == IF s # <<>> /\ IsSpace(s[Len(s)])
             THEN RStrip(SubSeq(s, 1, Len(s) - 1)) ELSE s

Strip(s) == RStrip(LStrip(s))

HexDigits == {"0","1","2","3","4","5","6","7","8","9","a","b","c","d","e","f"}

HexVal(ch) ==
    CASE ch = "0" -> 0 [] ch = "1" -> 1 [] ch = "2" -> 2 [] ch = "3" -> 3
      [] ch = "4" -> 4 [] ch = "5" -> 5 [] ch = "6" -> 6 [] ch = "7" -> 7
      [] ch = "8" -> 8 [] ch = "9" -> 9 [] ch = "a" -> 10 [] ch = "b" -> 11
      [] ch = "c" -> 12 [] ch = "d" -> 13 [] ch = "e" -> 14 [] ch = "f" -> 15
      [] OTHER -> 0

\* int(s, 16) on a two-character slice: surrounding whitespace is dropped
\* and one sign is accepted, as Python's int() does; anything else raises
\* ValueError (ok = FALSE).
int16(s) ==
    LET t == Strip(s)
    IN  IF Len(t) = 2 /\ t[1] \in HexDigits /\ t[2] \in HexDigits
          THEN [ok |-> TRUE, v |-> 16 * HexVal(t[1]) + HexVal(t[2])]
        ELSE IF Len(t) = 1 /\ t[1] \in HexDigits
          THEN [ok |-> TRUE, v |-> HexVal(t[1])]
        ELSE IF Len(t) = 2 /\ t[1] = "+" /\ t[2] \in HexDigits
          THEN [ok |-> TRUE, v |-> HexVal(t[2])]
        ELSE IF Len(t) = 2 /\ t[1] = "-" /\ t[2] \in HexDigits
          THEN [ok |-> TRUE, v |-> 0 - HexVal(t[2])]
        ELSE [ok |-> FALSE, v |-> 0]

\* int(e) on a tuple element
IntOk(e) == e[1] = "int"

Returned(rgba) == [raised |-> FALSE, rgba |-> rgba]
Raised == [raised |-> TRUE, rgba |-> <<0, 0, 0, 0>>]

parse_str(chars) ==
    LET c == Lower(Strip(chars))
        named == {p \in named_colors : p[1] = c}
    IN  IF named # {}
          THEN LET rgb == (CHOOSE p \in named : TRUE)[2]
               IN  Returned(<<rgb[1], rgb[2], rgb[3], 255>>)
        ELSE IF c # <<>> /\ c[1] = "#" /\ Len(c) = 7
          THEN LET r == int16(SubSeq(c, 2, 3))
                   g == int16(SubSeq(c, 4, 5))
                   b == int16(SubSeq(c, 6, 7))
               IN  IF r.ok /\ g.ok /\ b.ok
                   THEN Returned(<<r.v, g.v, b.v, 255>>)
                   ELSE Returned(White)
        ELSE Returned(White)

parse_color_alpha_dropped(c) ==
    IF c.kind \in {"tuple", "list"} /\ Len(c.elems) >= 3
    THEN IF \A i \in 1..3 : IntOk(c.elems[i])
         THEN Returned(<<c.elems[1][2], c.elems[2][2], c.elems[3][2], 255>>)
         ELSE Raised
    ELSE IF c.kind = "str" THEN parse_str(c.chars)
    ELSE Returned(White)

parse_color_channels_swapped(c) ==
    IF c.kind \in {"tuple", "list"} /\ Len(c.elems) >= 3
    THEN IF \A i \in 1..Min(Len(c.elems), 4) : IntOk(c.elems[i])
         THEN Returned(<<c.elems[1][2], c.elems[2][2], c.elems[3][2],
                         IF Len(c.elems) > 3 THEN c.elems[4][2] ELSE 255>>)
         ELSE Raised
    ELSE IF c.kind = "str"
         THEN LET p == parse_str(c.chars)
              IN  Returned(<<p.rgba[3], p.rgba[2], p.rgba[1], p.rgba[4]>>)
    ELSE Returned(White)

_parse_color(c) ==
    IF c.kind \in {"tuple", "list"} /\ Len(c.elems) >= 3
    THEN \* r, g, b = int(c[0]), int(c[1]), int(c[2]); a = int(c[3]) or 255
         IF \A i \in 1..Min(Len(c.elems), 4) : IntOk(c.elems[i])
         THEN Returned(<<c.elems[1][2], c.elems[2][2], c.elems[3][2],
                         IF Len(c.elems) > 3 THEN c.elems[4][2] ELSE 255>>)
         ELSE Raised
    ELSE IF c.kind = "str" THEN parse_str(c.chars)
    ELSE Returned(White)

\* the colour tokens
StrToken(s)   == [kind |-> "str", chars |-> s, elems |-> <<>>, n |-> 0]
SeqToken(k, e) == [kind |-> k, chars |-> <<>>, elems |-> e, n |-> 0]
NoneToken     == [kind |-> "none", chars |-> <<>>, elems |-> <<>>, n |-> 0]
IntToken(v)   == [kind |-> "int", chars |-> <<>>, elems |-> <<>>, n |-> v]

HexAlphabet == {"0", "F", "g", "-", " "}

NameStrings ==
    {p[1] : p \in named_colors}
    \cup { <<" ","B","l","u","e"," ">>, <<"R","E","D">>,
           <<"i","n","v","a","l","i","d">>, <<"#","G","G","G">>,
           <<"n","o","t","-","a","-","c","o","l","o","r">>, <<>>,
           <<"#","F","F","5","7","3","3">>, <<"#","f","f","5","7","3","3">>,
           <<"#","0","0","0","0","0","0">>, <<"#","1","2","3","4","5">>,
           <<"#","1","2","3","4","5","6","7">>,
           <<"F","F","5","7","3","3","0">> }

HexStrings ==
    { <<"#", a, b, c, d, e, f>> :
        a \in HexAlphabet, b \in HexAlphabet, c \in HexAlphabet,
        d \in HexAlphabet, e \in HexAlphabet, f \in HexAlphabet }

Elements == { <<"int", 0>>, <<"int", 128>>, <<"int", 255>>, <<"int", 256>>,
              <<"int", -1>>, <<"bad", 0>> }

SeqsOf(n) == UNION { [1..k -> Elements] : k \in 0..n }

\* the tokens _parse_color is applied to: names, hex strings, malformed
\* strings, tuples and lists of every length up to the bound, None, a number
IsColorToken(c) ==
    \/ \E s \in NameStrings : c = StrToken(s)
    \/ \E s \in HexStrings : c = StrToken(s)
    \/ \E k \in {"tuple", "list"}, e \in SeqsOf(MaxTupleLen) :
          c = SeqToken(k, e)
    \/ c \in {NoneToken, IntToken(123)}

InitIdleColor ==
    /\ colorPc = "idle"
    /\ colorIn = NoneToken
    /\ colorOut = Returned(White)

InitColor ==
    /\ colorPc = "call"
    /\ IsColorToken(colorIn)
    /\ colorOut = Returned(White)

ColorCall ==
    /\ colorPc = "call"
    /\ colorOut' = _parse_color(colorIn)
    /\ colorPc' = "done"
    /\ UNCHANGED <<colorIn, cropVars, pipeVars, gridVars, enhVars, sheetVars, svcVars>>

(***************************************************************************)
(* Images                                                                  *)
(*                                                                         *)
(* An image is [w, h, mode, px]: px maps <<x, y>>, 0 <= x < w, 0 <= y < h, *)
(* to <<r, g, b, a>>; in mode RGB the a component is held at 255.  The     *)
(* 600x600 output of a Lanczos resize is not computed pixel by pixel: it   *)
(* is a Canon record that names the image it was resampled from.           *)
(***************************************************************************)
MaxImg == 2     \* the caller's image is 1..MaxImg pixels wide and high

CANON == 600    \* the passport size of the final resize

Coords(w, h) == (0..(w - 1)) \X (0..(h - 1))

MakeImage(w, h, mode, px) == [w |-> w, h |-> h, mode |-> mode, px |-> px]

Transparent == <<0, 0, 0, 0>>

\* Image.new(mode, size, colour)
NewImage(mode, w, h, colour) ==
    LET fill(p) == IF mode = "RGB"
                   THEN <<colour[1], colour[2], colour[3], 255>> ELSE colour
    IN  MakeImage(w, h, mode,
                      [p \in Coords(w, h) |-> fill(p)])

\* Image.convert: RGB -> RGBA adds alpha 255, RGBA -> RGB drops the alpha,
\* same mode copies
Convert(im, mode) ==
    LET conv(p) == IF im.mode = "RGBA" /\ mode = "RGBA" THEN im.px[p]
                   ELSE <<im.px[p][1], im.px[p][2], im.px[p][3], 255>>
    IN  MakeImage(im.w, im.h, mode,
                      [p \in Coords(im.w, im.h) |-> conv(p)])

\* Image.crop((l, t, r, b)) with l <= r, t <= b: pixels outside the image
\* are zero-filled
Crop(im, l, t, r, b) ==
    LET at(p) ==
          LET q == <<p[1] + l, p[2] + t>>
          IN  IF q \in Coords(im.w, im.h) THEN im.px[q]
              ELSE IF im.mode = "RGB" THEN <<0, 0, 0, 255>> ELSE Transparent
    IN  MakeImage(r - l, b - t, im.mode,
                      [p \in Coords(r - l, b - t) |-> at(p)])

\* img.rotate(-rotation, expand=True, fillcolor='white') for rotation 90:
\* PIL turns it into transpose(ROTATE_270), a clockwise quarter turn
Rotate(im, rotation) ==
    IF rotation = 0 THEN im
    ELSE LET at(p) == im.px[<<p[2], im.h - 1 - p[1]>>]
         IN  MakeImage(im.h, im.w, im.mode,
                      [p \in Coords(im.h, im.w) |-> at(p)])

\* resize((600, 600), Image.LANCZOS)
Resize(im) ==
    [w |-> CANON, h |-> CANON, mode |-> im.mode, origin |-> "resize",
     src |-> im]

\* Image.new('RGB', (600, 600), (255, 255, 255))
BlankCanon ==
    [w |-> CANON, h |-> CANON, mode |-> "RGB", origin |-> "new",
     src |-> NewImage("RGB", 1, 1, <<255, 255, 255>>)]

NoImage  == NewImage("RGB", 0, 0, <<0, 0, 0>>)
NoResult == [w |-> 0, h |-> 0, mode |-> "none", origin |-> "none",
             src |-> NoImage]

(***************************************************************************)
(* Image.alpha_composite(background, fg): PIL's integer source-over        *)
(***************************************************************************)
ShiftForDiv255(a) == ((a \div 256) + a) \div 256

CompositePixel(dst, src) ==
    IF src[4] = 0 THEN dst
    ELSE LET blend   == dst[4] * (255 - src[4])
             outa255 == src[4] * 255 + blend
             coef1   == (src[4] * 255 * 255 * 128) \div outa255
             coef2   == 255 * 128 - coef1
             ch(i)   == ShiftForDiv255(src[i] * coef1 + dst[i] * coef2
                                       + 128 * 128) \div 128
         IN  <<ch(1), ch(2), ch(3), ShiftForDiv255(outa255 + 128)>>

alpha_composite(background, fg) ==
    LET at(p) == CompositePixel(background.px[p], fg.px[p])
    IN  MakeImage(fg.w, fg.h, "RGBA",
                      [p \in Coords(fg.w, fg.h) |-> at(p)])

(***************************************************************************)
(* enhance_image_quality: factors are n / 2 (2 is the factor 1.0)          *)
(***************************************************************************)
FactorDen == 2

RECURSIVE SumOver(_, _)
SumOver(S, f) ==
    IF S = {} THEN 0
    ELSE LET e == CHOOSE e \in S : TRUE
         IN  f[e] + SumOver(S \ {e}, f)

\* Image.blend(degenerate, image, factor) on one channel value: the
\* extrapolating branch clips to 0..255 and truncates
BlendValue(d, v, fn) ==
    LET t2 == FactorDen * d + fn * (v - d)     \* FactorDen times the float
    IN  IF t2 <= 0 THEN 0
        ELSE IF t2 >= 255 * FactorDen THEN 255
        ELSE t2 \div FactorDen

\* ImageEnhance.Brightness: the degenerate image is black
Brightness(im, fn) ==
    LET at(p) == <<BlendValue(0, im.px[p][1], fn), BlendValue(0, im.px[p][2], fn),
                   BlendValue(0, im.px[p][3], fn), im.px[p][4]>>
    IN  MakeImage(im.w, im.h, im.mode,
                      [p \in Coords(im.w, im.h) |-> at(p)])

\* convert("L") of one pixel
Luma(q) == (q[1] * 19595 + q[2] * 38470 + q[3] * 7471 + 32768) \div 65536

\* ImageEnhance.Contrast: the degenerate image is the mean grey,
\* int(mean + 0.5)
Contrast(im, fn) ==
    LET n     == im.w * im.h
        lum   == [p \in Coords(im.w, im.h) |-> Luma(im.px[p])]
        mean  == IF n = 0 THEN 0
                 ELSE (2 * SumOver(Coords(im.w, im.h), lum) + n) \div (2 * n)
        at(p) == <<BlendValue(mean, im.px[p][1], fn),
                   BlendValue(mean, im.px[p][2], fn),
                   BlendValue(mean, im.px[p][3], fn), im.px[p][4]>>
    IN  MakeImage(im.w, im.h, im.mode,
                      [p \in Coords(im.w, im.h) |-> at(p)])

\* enhance_image_quality that adjusts only when both factors differ from 1.0
enhance_image_quality_both(im, brightness, contrast, fault) ==
    IF brightness # FactorDen /\ contrast # FactorDen /\ fault = "none"
    THEN Contrast(Brightness(im, brightness), contrast)
    ELSE im

\* fault: "none", or the enhancer that raises; the except clause returns
\* img as it stands, so a brightness already applied is kept
enhance_image_quality(im, brightness, contrast, fault) ==
    LET b == IF brightness # FactorDen /\ fault # "brightness"
             THEN Brightness(im, brightness) ELSE im
    IN  IF brightness # FactorDen /\ fault = "brightness" THEN im
        ELSE IF contrast # FactorDen /\ fault # "contrast"
             THEN Contrast(b, contrast)
        ELSE b

(***************************************************************************)
(* validate_image                                                          *)
(***************************************************************************)
MIN_SIZE == 200
MAX_SIZE == 4000
MIN_STD  == 10

\* an image too large to hold pixel by pixel: the tile repeated from the
\* top left corner over w x h, the last column and row of tiles cut off
TiledImage(w, h, tile) ==
    [w |-> w, h |-> h, mode |-> tile.mode, px |-> tile.px,
     tile |-> <<tile.w, tile.h>>]

RECURSIVE Gcd(_, _)
Gcd(a, b) == IF b = 0 THEN a ELSE Gcd(b, a % b)

RECURSIVE GcdOver(_, _)
GcdOver(S, f) ==
    IF S = {} THEN 0
    ELSE LET x == CHOOSE y \in S : TRUE
         IN  Gcd(f[x], GcdOver(S \ {x}, f))

\* np.std(np.array(img.convert('RGB'))) < 10 over the n = 3*w*h channel
\* values v: sum((v - mean)^2) / n < 10^2.  A pixel of a tile counts once
\* for every place it is repeated at; the counts are reduced by their common
\* divisor and the values taken from c = floor(mean), neither of which
\* changes the deviation, so that with r = sum(v - c), 0 <= r < n, the test
\* is n * (sum((v - c)^2) - 10^2 * n) < r^2
StdBelow(im, bound) ==
    LET tw == IF "tile" \in DOMAIN im THEN im.tile[1] ELSE im.w
        th == IF "tile" \in DOMAIN im THEN im.tile[2] ELSE im.h
        C  == Coords(tw, th)
        times == [p \in C |-> ((im.w - p[1] + tw - 1) \div tw)
                              * ((im.h - p[2] + th - 1) \div th)]
        g  == GcdOver(C, times)
        k  == [p \in C |-> times[p] \div g]
        n  == 3 * SumOver(C, k)
        s  == SumOver(C, [p \in C |->
                 k[p] * (im.px[p][1] + im.px[p][2] + im.px[p][3])])
        c  == s \div n
        r  == s - c * n
        s2 == SumOver(C, [p \in C |->
                 k[p] * ((im.px[p][1] - c) * (im.px[p][1] - c)
                         + (im.px[p][2] - c) * (im.px[p][2] - c)
                         + (im.px[p][3] - c) * (im.px[p][3] - c))])
        a  == s2 - bound * bound * n
    IN  IF a <= 0 THEN a < 0 \/ r # 0
        ELSE IF a >= n THEN FALSE
        ELSE n * a < r * r

\* validate_image with the limits taken as exclusive
validate_image_inclusive(im) ==
    IF im.w <= MIN_SIZE \/ im.h <= MIN_SIZE
      THEN [ok |-> FALSE, msg |-> "too small"]
    ELSE IF im.w >= MAX_SIZE \/ im.h >= MAX_SIZE
      THEN [ok |-> FALSE, msg |-> "too large"]
    ELSE IF StdBelow(im, MIN_STD)
      THEN [ok |-> FALSE, msg |-> "blank or low contrast"]
    ELSE [ok |-> TRUE, msg |-> ""]

validate_image(im) ==
    IF im.w < MIN_SIZE \/ im.h < MIN_SIZE
      THEN [ok |-> FALSE, msg |-> "too small"]
    ELSE IF im.w > MAX_SIZE \/ im.h > MAX_SIZE
      THEN [ok |-> FALSE, msg |-> "too large"]
    ELSE IF StdBelow(im, MIN_STD)
      THEN [ok |-> FALSE, msg |-> "blank or low contrast"]
    ELSE [ok |-> TRUE, msg |-> ""]

(***************************************************************************)
(* process_passport_photo                                                  *)
(***************************************************************************)
\* the caller's images: a gradient in RGB; in RGBA a half-transparent flat
\* colour and a gradient whose first column is transparent
InputPatterns == {"rgb_gradient", "rgba_half", "rgba_column"}

InputImage(w, h, pat) ==
    LET grad(p) == <<60 * (p[1] + 1), 80 * (p[2] + 1), 30, 255>>
        half(p) == <<255, 0, 0, 128>>
        colm(p) == <<60 * (p[1] + 1), 80 * (p[2] + 1), 30,
                     IF p[1] = 0 THEN 0 ELSE 255>>
    IN  CASE pat = "rgb_gradient" -> MakeImage(w, h, "RGB",
                      [p \in Coords(w, h) |-> grad(p)])
          [] pat = "rgba_half"    -> MakeImage(w, h, "RGBA",
                      [p \in Coords(w, h) |-> half(p)])
          [] pat = "rgba_column"  -> MakeImage(w, h, "RGBA",
                      [p \in Coords(w, h) |-> colm(p)])

\* the small images of every pattern, and one strip four times as wide as
\* high
InputImages ==
    {InputImage(w, h, pat) : w \in 1..MaxImg, h \in 1..MaxImg,
                             pat \in InputPatterns}
    \cup {InputImage(4, 1, "rgba_column")}

\* bg_color tokens: a name, an RGBA tuple with its own alpha, and a tuple
\* _parse_color raises on
BgColors ==
    { StrToken(<<"b","l","u","e">>),
      SeqToken("tuple", <<<<"int", 0>>, <<"int", 100>>, <<"int", 255>>,
                          <<"int", 128>>>>),
      SeqToken("tuple", <<<<"int", 0>>, <<"bad", 0>>, <<"int", 0>>>>) }

\* crop_data: None (given = FALSE), or the dict main.py builds
NoCropData == [given |-> FALSE, x |-> 0, y |-> 0, width |-> 0, height |-> 0,
               rotation |-> 0]

ManualCrops ==
    [given : {TRUE}, x : {0, 1}, y : {0}, width : {MaxImg}, height : {1},
     rotation : {0, 90}]

FaceScales == {1, 4, 8}     \* 0.25, 1.0, 2.0 in units of 1 / ScaleDen

\* the face scale matters only to an automatic crop
CropChoices ==
    {[crop_data |-> NoCropData, face_scale |-> f] : f \in FaceScales}
    \cup {[crop_data |-> cd, face_scale |-> 8] : cd \in ManualCrops}

\* enhance_quality, brightness, contrast; factors in units of 1 / FactorDen
EnhanceChoices ==
    {<<FALSE, 2, 2>>, <<TRUE, 2, 2>>, <<TRUE, 3, 2>>, <<TRUE, 2, 3>>}

Options ==
    {[bg_color |-> c, face_scale |-> cc.face_scale, brightness |-> e[2],
      contrast |-> e[3], enhance_quality |-> e[1],
      crop_data |-> cc.crop_data] :
        c \in BgColors, cc \in CropChoices, e \in EnhanceChoices}

\* the boxes detect_face_bbox_cv2 can report in an image
FaceBoxes(im) ==
    {b \in [x : 0..(im.w - 1), y : 0..(im.h - 1), w : 1..MaxBox, h : 1..MaxBox] :
        b.x + b.w <= im.w /\ b.y + b.h <= im.h}

\* the mattes rembg can answer with: keep everything, remove everything,
\* keep the first column
Mattes == {"keep", "remove", "column"}

ApplyMatte(im, matte) ==
    LET at(p) == IF matte = "keep" \/ (matte = "column" /\ p[1] = 0)
                 THEN im.px[p] ELSE Transparent
    IN  MakeImage(im.w, im.h, "RGBA",
                      [p \in Coords(im.w, im.h) |-> at(p)])

InitIdlePipeline ==
    /\ pc = "idle"
    /\ pil_img = NoImage
    /\ opts = [bg_color |-> NoneToken, face_scale |-> 4, brightness |-> 2,
               contrast |-> 2, enhance_quality |-> FALSE,
               crop_data |-> NoCropData]
    /\ env = [rembg |-> FALSE, face |-> "unasked", matting |-> "unasked"]
    /\ img = NoImage
    /\ cropped = NoImage
    /\ fg_with_alpha = NoImage
    /\ bg_rgba = White
    /\ composed = NoImage
    /\ final_rgb = NoImage
    /\ result = NoResult
    /\ trace = <<>>

InitPipeline ==
    /\ pc = "convert"
    /\ pil_img \in InputImages
    /\ opts \in Options
    /\ env \in [rembg : BOOLEAN, face : {"unasked"}, matting : {"unasked"}]
    /\ img = NoImage
    /\ cropped = NoImage
    /\ fg_with_alpha = NoImage
    /\ bg_rgba = White
    /\ composed = NoImage
    /\ final_rgb = NoImage
    /\ result = NoResult
    /\ trace = <<>>

\* where control goes when a statement raises: the outer except clause
\* from the pipeline, the inner one from the resize of the original
on_fault_unguarded(at) == IF at = "fallback" THEN "raised" ELSE "except"

on_fault(at) == IF at = "fallback" THEN "last" ELSE "except"

Fault(at) ==
    /\ pc' = on_fault(at)
    /\ trace' = Append(trace, "fault")

\* img = pil_img.convert('RGBA')
ConvertStage ==
    /\ pc = "convert"
    /\ \/ /\ img' = Convert(pil_img, "RGBA")
          /\ pc' = IF opts.crop_data.given THEN "manual_crop" ELSE "auto_crop"
          /\ trace' = Append(trace, "convert")
       \/ /\ Fault("convert")
          /\ UNCHANGED img
    /\ UNCHANGED <<pil_img, opts, env, cropped, fg_with_alpha, bg_rgba,
                   composed, final_rgb, result, cropVars, colorVars,
                   gridVars, enhVars, sheetVars, svcVars>>

\* the crop_data branch: rotate, then crop the literal rectangle
ManualCropStage ==
    /\ pc = "manual_crop"
    /\ \/ LET cd  == opts.crop_data
              rot == Rotate(img, cd.rotation)
          IN  /\ img' = rot
              /\ cropped' = Crop(rot, cd.x, cd.y, cd.x + cd.width,
                                 cd.y + cd.height)
              /\ pc' = "matte"
              /\ trace' = Append(trace, "crop")
       \/ /\ Fault("manual_crop")
          /\ UNCHANGED <<img, cropped>>
    /\ UNCHANGED <<pil_img, opts, env, fg_with_alpha, bg_rgba, composed,
                   final_rgb, result, cropVars, colorVars,
                   gridVars, enhVars, sheetVars, svcVars>>

\* a centred square whose offsets are rounded up
center_crop_ceil(im) ==
    LET side == Min(im.w, im.h)
        left == (im.w - side + 1) \div 2
        top  == (im.h - side + 1) \div 2
    IN  Crop(im, left, top, left + side, top + side)

\* the fallback when no face is found: the centred square
center_crop(im) ==
    LET side == Min(im.w, im.h)
        left == (im.w - side) \div 2
        top  == (im.h - side) \div 2
    IN  Crop(im, left, top, left + side, top + side)

\* detection, then crop_centered_square_from_bbox or the centred square;
\* a fault inside detect_face_bbox_cv2 is caught there and answers None
AutoCropStage ==
    /\ pc = "auto_crop"
    /\ \/ \E face \in {"none", "fault"} :
            /\ env' = [env EXCEPT !.face = face]
            /\ cropped' = center_crop(img)
            /\ pc' = "matte"
            /\ trace' = Append(trace, "crop")
       \/ \E b \in FaceBoxes(img) :
            LET r == crop_centered_square_from_bbox(img.w, img.h, b.x, b.y,
                         b.w, b.h, opts.face_scale)
            IN  /\ env' = [env EXCEPT !.face = "box"]
                /\ cropped' = Crop(img, r[1], r[2], r[3], r[4])
                /\ pc' = "matte"
                /\ trace' = Append(trace, "crop")
       \/ /\ Fault("auto_crop")
          /\ UNCHANGED <<env, cropped>>
    /\ UNCHANGED <<pil_img, opts, img, fg_with_alpha, bg_rgba, composed,
                   final_rgb, result, cropVars, colorVars,
                   gridVars, enhVars, sheetVars, svcVars>>

\* remove_background_rembg that answers a failure with an empty cut-out
remove_background_rembg_blank(im, answer) ==
    IF answer \in {"unavailable", "fault"}
    THEN Convert(ApplyMatte(im, "remove"), "RGBA")
    ELSE Convert(ApplyMatte(im, answer), "RGBA")

\* remove_background_rembg: answer is "unavailable", "fault" or a matte
remove_background_rembg(im, answer) ==
    IF answer \in {"unavailable", "fault"}
    THEN Convert(im, "RGBA")
    ELSE Convert(ApplyMatte(im, answer), "RGBA")

MatteStage ==
    /\ pc = "matte"
    /\ \/ \E answer \in (IF env.rembg THEN Mattes \cup {"fault"}
                                    ELSE {"unavailable"}) :
            /\ env' = [env EXCEPT !.matting = answer]
            /\ fg_with_alpha' = remove_background_rembg(cropped, answer)
            /\ pc' = "composite"
            /\ trace' = Append(trace, "matte")
       \/ /\ Fault("matte")
          /\ UNCHANGED <<env, fg_with_alpha>>
    /\ UNCHANGED <<pil_img, opts, img, cropped, bg_rgba, composed, final_rgb,
                   result, cropVars, colorVars,
                   gridVars, enhVars, sheetVars, svcVars>>

\* bg_rgba = _parse_color(bg_color); Image.new; Image.alpha_composite
CompositeStage ==
    /\ pc = "composite"
    /\ LET parsed == _parse_color(opts.bg_color)
       IN  \/ /\ ~parsed.raised
              /\ bg_rgba' = parsed.rgba
              /\ composed' = alpha_composite(
                     NewImage("RGBA", fg_with_alpha.w, fg_with_alpha.h,
                              parsed.rgba), fg_with_alpha)
              /\ pc' = "rgb"
              /\ trace' = Append(trace, "composite")
           \/ /\ Fault("composite")
              /\ UNCHANGED <<bg_rgba, composed>>
    /\ UNCHANGED <<pil_img, opts, env, img, cropped, fg_with_alpha, final_rgb,
                   result, cropVars, colorVars,
                   gridVars, enhVars, sheetVars, svcVars>>

\* an orchestrator that enhances whatever enhance_quality says
after_rgb_always(enhance_quality) == "enhance"

\* if enhance_quality: the statement that follows the RGB conversion
after_rgb(enhance_quality) ==
    IF enhance_quality THEN "enhance" ELSE "resize"

\* final_rgb = composed.convert('RGB')
RgbStage ==
    /\ pc = "rgb"
    /\ \/ /\ final_rgb' = Convert(composed, "RGB")
          /\ pc' = after_rgb(opts.enhance_quality)
          /\ trace' = Append(trace, "rgb")
       \/ /\ Fault("rgb")
          /\ UNCHANGED final_rgb
    /\ UNCHANGED <<pil_img, opts, env, img, cropped, fg_with_alpha, bg_rgba,
                   composed, result, cropVars, colorVars,
                   gridVars, enhVars, sheetVars, svcVars>>

\* final_rgb = enhance_image_quality(final_rgb, brightness, contrast);
\* it catches its own faults
EnhanceStage ==
    /\ pc = "enhance"
    /\ \E fault \in {"none", "brightness", "contrast"} :
          final_rgb' = enhance_image_quality(final_rgb, opts.brightness,
                                             opts.contrast, fault)
    /\ pc' = "resize"
    /\ trace' = Append(trace, "enhance")
    /\ UNCHANGED <<pil_img, opts, env, img, cropped, fg_with_alpha, bg_rgba,
                   composed, result, cropVars, colorVars,
                   gridVars, enhVars, sheetVars, svcVars>>

\* final = final_rgb.resize((600, 600), Image.LANCZOS); return final
CanonicalizeStage ==
    /\ pc = "resize"
    /\ \/ /\ result' = Resize(final_rgb)
          /\ pc' = "done"
          /\ trace' = Append(trace, "resize")
       \/ /\ Fault("resize")
          /\ UNCHANGED result
    /\ UNCHANGED <<pil_img, opts, env, img, cropped, fg_with_alpha, bg_rgba,
                   composed, final_rgb, cropVars, colorVars,
                   gridVars, enhVars, sheetVars, svcVars>>

\* the image the emergency fallback resizes
fallback_source_processed(original, converted) == converted

fallback_source(original, converted) == original

\* except: return pil_img.convert('RGB').resize((600, 600), Image.LANCZOS)
FallbackStage ==
    /\ pc = "except"
    /\ \/ /\ result' = Resize(Convert(fallback_source(pil_img, img), "RGB"))
          /\ pc' = "done"
          /\ trace' = Append(trace, "fallback")
       \/ /\ Fault("fallback")
          /\ UNCHANGED result
    /\ UNCHANGED <<pil_img, opts, env, img, cropped, fg_with_alpha, bg_rgba,
                   composed, final_rgb, cropVars, colorVars,
                   gridVars, enhVars, sheetVars, svcVars>>

\* except: return Image.new('RGB', (600, 600), (255, 255, 255))
BlankStage ==
    /\ pc = "last"
    /\ result' = BlankCanon
    /\ pc' = "done"
    /\ trace' = Append(trace, "blank")
    /\ UNCHANGED <<pil_img, opts, env, img, cropped, fg_with_alpha, bg_rgba,
                   composed, final_rgb, cropVars, colorVars,
                   gridVars, enhVars, sheetVars, svcVars>>

(***************************************************************************)
(* calculate_grid_layout                                                   *)
(***************************************************************************)
MaxCanvas  == 5    \* canvas width and height range over 0..MaxCanvas
MaxCell    == 3    \* photo_size ranges over -1..MaxCell
MaxMargin  == 2    \* margin ranges over -MaxMargin..MaxMargin
MaxSpacing == 2    \* spacing ranges over -MaxSpacing..MaxSpacing

A4_WIDTH_PX == 2480
A4_HEIGHT_PX == 3508
PASSPORT_SIZE_PX == 600
DEFAULT_MARGIN == 60
DEFAULT_SPACING == 30

\* Python's a // b on integers: the floor of the quotient for either sign
\* of b; the caller guards b = 0, where Python raises ZeroDivisionError
floordiv(a, b) == IF b > 0 THEN a \div b ELSE (-a) \div (-b)

NoLayout == [raised |-> FALSE, cols |-> 0, rows |-> 0, x_offset |-> 0,
             y_offset |-> 0]

LayoutRaised == [raised |-> TRUE, cols |-> 0, rows |-> 0, x_offset |-> 0,
                 y_offset |-> 0]

\* calculate_grid_layout that keeps the count the division gives
calculate_grid_layout_nomin(canvas_width, canvas_height, photo_size, margin, spacing) ==
    IF photo_size + spacing = 0 THEN LayoutRaised
    ELSE
    LET available_width  == canvas_width - (2 * margin)
        available_height == canvas_height - (2 * margin)
        cols == floordiv(available_width + spacing, photo_size + spacing)
        rows == floordiv(available_height + spacing, photo_size + spacing)
        total_grid_width  == cols * photo_size + (cols - 1) * spacing
        total_grid_height == rows * photo_size + (rows - 1) * spacing
    IN  [raised |-> FALSE, cols |-> cols, rows |-> rows,
         x_offset |-> floordiv(canvas_width - total_grid_width, 2),
         y_offset |-> floordiv(canvas_height - total_grid_height, 2)]

\* a layout whose grid extent counts a gap after the last column and row
calculate_grid_layout_trailing(canvas_width, canvas_height, photo_size, margin, spacing) ==
    IF photo_size + spacing = 0 THEN LayoutRaised
    ELSE
    LET available_width  == canvas_width - (2 * margin)
        available_height == canvas_height - (2 * margin)
        cols == Max(1, floordiv(available_width + spacing,
                                photo_size + spacing))
        rows == Max(1, floordiv(available_height + spacing,
                                photo_size + spacing))
        total_grid_width  == cols * (photo_size + spacing)
        total_grid_height == rows * (photo_size + spacing)
    IN  [raised |-> FALSE, cols |-> cols, rows |-> rows,
         x_offset |-> floordiv(canvas_width - total_grid_width, 2),
         y_offset |-> floordiv(canvas_height - total_grid_height, 2)]

calculate_grid_layout(canvas_width, canvas_height, photo_size, margin, spacing) ==
    IF photo_size + spacing = 0 THEN LayoutRaised
    ELSE
    LET available_width  == canvas_width - (2 * margin)
        available_height == canvas_height - (2 * margin)
        cols == Max(1, floordiv(available_width + spacing,
                                photo_size + spacing))
        rows == Max(1, floordiv(available_height + spacing,
                                photo_size + spacing))
        total_grid_width  == cols * photo_size + (cols - 1) * spacing
        total_grid_height == rows * photo_size + (rows - 1) * spacing
    IN  [raised |-> FALSE, cols |-> cols, rows |-> rows,
         x_offset |-> floordiv(canvas_width - total_grid_width, 2),
         y_offset |-> floordiv(canvas_height - total_grid_height, 2)]

\* small canvases, cells, margins and spacings of either sign; the A4
\* defaults; the small canvas of the test suite
GridInputs ==
    [canvas_width : 0..MaxCanvas, canvas_height : 0..MaxCanvas,
     photo_size : (-1)..MaxCell, margin : (-MaxMargin)..MaxMargin,
     spacing : (-MaxSpacing)..MaxSpacing]
    \cup {[canvas_width |-> A4_WIDTH_PX, canvas_height |-> A4_HEIGHT_PX,
           photo_size |-> PASSPORT_SIZE_PX, margin |-> DEFAULT_MARGIN,
           spacing |-> DEFAULT_SPACING],
          [canvas_width |-> 800, canvas_height |-> 600,
           photo_size |-> PASSPORT_SIZE_PX, margin |-> 10, spacing |-> 5]}

InitIdleLayout ==
    /\ gridPc = "idle"
    /\ gridIn = [canvas_width |-> 0, canvas_height |-> 0, photo_size |-> 1,
                 margin |-> 0, spacing |-> 0]
    /\ gridOut = NoLayout

InitLayout ==
    /\ gridPc = "call"
    /\ gridIn \in GridInputs
    /\ gridOut = NoLayout

LayoutCall ==
    /\ gridPc = "call"
    /\ gridOut' = calculate_grid_layout(gridIn.canvas_width,
                      gridIn.canvas_height, gridIn.photo_size, gridIn.margin,
                      gridIn.spacing)
    /\ gridPc' = "done"
    /\ UNCHANGED <<gridIn, cropVars, colorVars, pipeVars, enhVars, sheetVars, svcVars>>

(***************************************************************************)
(* enhance_image_quality on its own                                        *)
(***************************************************************************)
MaxFactorNum == 4   \* factors are n / FactorDen for n in 1..MaxFactorNum

\* the RGB images the orchestrator can hand to the enhancer
EnhImages == {Convert(im, "RGB") : im \in InputImages}

EnhInputs ==
    [im : EnhImages, brightness : 1..MaxFactorNum, contrast : 1..MaxFactorNum,
     fault : {"none", "brightness", "contrast"}]

InitIdleEnhance ==
    /\ enhPc = "idle"
    /\ enhIn = [im |-> NoImage, brightness |-> FactorDen,
                contrast |-> FactorDen, fault |-> "none"]
    /\ enhOut = NoImage

InitEnhance ==
    /\ enhPc = "call"
    /\ enhIn \in EnhInputs
    /\ enhOut = NoImage

EnhanceCall ==
    /\ enhPc = "call"
    /\ enhOut' = enhance_image_quality(enhIn.im, enhIn.brightness,
                                       enhIn.contrast, enhIn.fault)
    /\ enhPc' = "done"
    /\ UNCHANGED <<enhIn, cropVars, colorVars, pipeVars, gridVars, sheetVars, svcVars>>

(***************************************************************************)
(* make_a4_sheet and make_a4_sheet_multiple                                *)
(*                                                                         *)
(* The A4 canvas is the sequence of pastes made on it; a returned buffer   *)
(* is the page it holds.                                                   *)
(***************************************************************************)
\* photo.resize((PASSPORT_SIZE_PX, PASSPORT_SIZE_PX), Image.LANCZOS)
CellResize(im) ==
    [w |-> PASSPORT_SIZE_PX, h |-> PASSPORT_SIZE_PX, mode |-> im.mode,
     origin |-> "resize", src |-> im]

\* the working copy pasted as the caller handed it in
cell_photo_asis(im) == im

\* the working copy of a photo: resized unless it has the cell size
cell_photo(im) ==
    IF im.w # PASSPORT_SIZE_PX \/ im.h # PASSPORT_SIZE_PX
    THEN CellResize(im)
    ELSE im

\* the per-cell check before a paste
Fits(x, y) ==
    x + PASSPORT_SIZE_PX <= A4_WIDTH_PX /\ y + PASSPORT_SIZE_PX <= A4_HEIGHT_PX

CellX(lay, spacing, c) == lay.x_offset + c * (PASSPORT_SIZE_PX + spacing)
CellY(lay, spacing, r) == lay.y_offset + r * (PASSPORT_SIZE_PX + spacing)

\* add_cutting_guides: the lines it draws, in order
GuideLines(lay, spacing) ==
    LET nv == lay.cols - 1
        nh == lay.rows - 1
        vx(c) == CellX(lay, spacing, c) - floordiv(spacing, 2)
        hy(r) == CellY(lay, spacing, r) - floordiv(spacing, 2)
    IN  [i \in 1..(nv + nh) |->
            IF i <= nv
            THEN [x1 |-> vx(i), y1 |-> lay.y_offset - 10, x2 |-> vx(i),
                  y2 |-> lay.y_offset + lay.rows * (PASSPORT_SIZE_PX + spacing)
                         - spacing + 10]
            ELSE [x1 |-> lay.x_offset - 10, y1 |-> hy(i - nv),
                  x2 |-> lay.x_offset + lay.cols * (PASSPORT_SIZE_PX + spacing)
                         - spacing + 10,
                  y2 |-> hy(i - nv)]]

\* buffers: nothing returned yet; the A4 page rendered from the canvas; the
\* page create_empty_pdf draws; the buffer create_empty_pdf returns when
\* its own rendering raised
NoBuffer == [kind |-> "none"]
SheetPage(pastes, lines) == [kind |-> "sheet", pastes |-> pastes,
                             guides |-> lines]
ErrorPage == [kind |-> "error",
              text |-> "Error: Could not generate passport photo sheet"]
EmptyBuffer == [kind |-> "empty"]

\* main.py: make_a4_sheet(result_img, copies=12) and the "copies" it reports
process_make_a4_copies == 12
process_reported_copies == 12

\* the photos a caller hands in: the canonical outputs of the pipeline and
\* images of other sizes
SheetPhotos ==
    { BlankCanon,
      Resize(InputImage(1, 1, "rgb_gradient")),
      InputImage(1, 1, "rgb_gradient"),
      InputImage(2, 1, "rgba_column") }

SheetCopies == {-1, 0, 1, process_make_a4_copies, 100}

\* the default; a grid 10 px wider than the canvas; a grid larger than the
\* canvas on both axes; room for no cell at all
SheetMargins == {DEFAULT_MARGIN, -5, -200, 1000}

\* the default; a gap of one pixel; overlapping cells; photo_size +
\* spacing = 0; a negative step; gaps wider than two cells
SheetSpacings == {DEFAULT_SPACING, 1, -300, -600, -700, 1300}

PhotoLists ==
    { <<>>,
      <<BlankCanon>>,
      <<InputImage(1, 1, "rgb_gradient"), BlankCanon,
        InputImage(2, 1, "rgba_column")>> }

SheetInputs ==
    [fn : {"single"}, passport_images : {<<ph>> : ph \in SheetPhotos},
     copies : SheetCopies, margin : SheetMargins, spacing : SheetSpacings,
     add_cut_lines : BOOLEAN]
    \cup
    [fn : {"multiple"}, passport_images : PhotoLists, copies : {0},
     margin : SheetMargins, spacing : SheetSpacings, add_cut_lines : BOOLEAN]

InitIdleSheet ==
    /\ sheetPc = "idle"
    /\ sheetArgs = [fn |-> "single", passport_images |-> <<>>, copies |-> 0,
                    margin |-> DEFAULT_MARGIN, spacing |-> DEFAULT_SPACING,
                    add_cut_lines |-> TRUE]
    /\ caller_images = <<>>
    /\ photo = NoImage
    /\ layout = NoLayout
    /\ row = 0
    /\ col = 0
    /\ photos_placed = 0
    /\ photo_index = 0
    /\ sheet = <<>>
    /\ guides = <<>>
    /\ pdf = NoBuffer
    /\ sheetTrace = <<>>

InitSheet ==
    /\ sheetPc = "start"
    /\ sheetArgs \in SheetInputs
    /\ caller_images = sheetArgs.passport_images
    /\ photo = NoImage
    /\ layout = NoLayout
    /\ row = 0
    /\ col = 0
    /\ photos_placed = 0
    /\ photo_index = 0
    /\ sheet = <<>>
    /\ guides = <<>>
    /\ pdf = NoBuffer
    /\ sheetTrace = <<>>

\* an exception inside the builder's try: its except clause calls
\* create_empty_pdf
SheetFault(at) ==
    /\ sheetPc' = "empty_pdf"
    /\ sheetTrace' = Append(sheetTrace, at)

\* make_a4_sheet: photo = passport_img.copy(), resized to the cell unless it
\* has that size; sheet = Image.new(...)
SingleCopyStage ==
    /\ sheetPc = "start"
    /\ sheetArgs.fn = "single"
    /\ \/ /\ photo' = cell_photo(sheetArgs.passport_images[1])
          /\ sheetPc' = "layout"
          /\ UNCHANGED sheetTrace
       \/ /\ SheetFault("copy")
          /\ UNCHANGED photo
    /\ UNCHANGED <<sheetArgs, caller_images, layout, row, col, photos_placed,
                   photo_index, sheet, guides, pdf, cropVars, colorVars,
                   pipeVars, gridVars, enhVars, svcVars>>

\* make_a4_sheet_multiple: an empty list returns create_empty_pdf() at once;
\* otherwise sheet = Image.new(...)
MultipleCheckStage ==
    /\ sheetPc = "start"
    /\ sheetArgs.fn = "multiple"
    /\ \/ /\ sheetPc' = IF sheetArgs.passport_images = <<>> THEN "empty_pdf"
                        ELSE "layout"
          /\ UNCHANGED sheetTrace
       \/ /\ sheetArgs.passport_images # <<>>
          /\ SheetFault("new")
    /\ UNCHANGED <<sheetArgs, caller_images, photo, layout, row, col,
                   photos_placed, photo_index, sheet, guides, pdf, cropVars,
                   colorVars, pipeVars, gridVars, enhVars, svcVars>>

\* cols, rows, x_offset, y_offset = calculate_grid_layout(A4_SIZE_PX,
\* PASSPORT_SIZE_PX, margin, spacing); the loops start at row 0, col 0
SheetLayoutStage ==
    /\ sheetPc = "layout"
    /\ LET lay == calculate_grid_layout(A4_WIDTH_PX, A4_HEIGHT_PX,
                      PASSPORT_SIZE_PX, sheetArgs.margin, sheetArgs.spacing)
       IN  IF lay.raised
           THEN /\ SheetFault("layout")
                /\ UNCHANGED <<layout, row, col>>
           ELSE /\ layout' = lay
                /\ row' = 0
                /\ col' = 0
                /\ sheetPc' = "place"
                /\ UNCHANGED sheetTrace
    /\ UNCHANGED <<sheetArgs, caller_images, photo, photos_placed,
                   photo_index, sheet, guides, pdf, cropVars, colorVars,
                   pipeVars, gridVars, enhVars, svcVars>>

\* the loops left at the end of the first row whatever has been placed
AfterCell_onerow(exhausted) ==
    IF col + 1 < layout.cols
    THEN /\ col' = col + 1
         /\ row' = row
         /\ sheetPc' = "place"
    ELSE /\ sheetPc' = "guides"
         /\ UNCHANGED <<row, col>>

\* the end of one pass through the inner loop body: the next column; at the
\* end of a row the outer loop's break test, then the next row
AfterCell(exhausted) ==
    IF col + 1 < layout.cols
    THEN /\ col' = col + 1
         /\ row' = row
         /\ sheetPc' = "place"
    ELSE IF exhausted \/ row + 1 >= layout.rows
    THEN /\ sheetPc' = "guides"
         /\ UNCHANGED <<row, col>>
    ELSE /\ row' = row + 1
         /\ col' = 0
         /\ sheetPc' = "place"

\* make_a4_sheet: one pass through the body of the inner loop
PlaceSingle ==
    /\ sheetPc = "place"
    /\ sheetArgs.fn = "single"
    /\ LET x == CellX(layout, sheetArgs.spacing, col)
           y == CellY(layout, sheetArgs.spacing, row)
       IN  IF photos_placed >= sheetArgs.copies
           THEN /\ sheetPc' = "guides"
                /\ UNCHANGED <<row, col, photos_placed, sheet, sheetTrace>>
           ELSE IF Fits(x, y)
           THEN \/ /\ sheet' = Append(sheet, [x |-> x, y |-> y, im |-> photo,
                                              row |-> row, col |-> col])
                   /\ photos_placed' = photos_placed + 1
                   /\ AfterCell(photos_placed + 1 >= sheetArgs.copies)
                   /\ UNCHANGED sheetTrace
                \/ /\ SheetFault("paste")
                   /\ UNCHANGED <<row, col, photos_placed, sheet>>
           ELSE /\ AfterCell(FALSE)
                /\ UNCHANGED <<photos_placed, sheet, sheetTrace>>
    /\ UNCHANGED <<sheetArgs, caller_images, photo, layout, photo_index,
                   guides, pdf, cropVars, colorVars, pipeVars, gridVars,
                   enhVars, svcVars>>

\* make_a4_sheet_multiple: one pass through the body of the inner loop
PlaceMultiple ==
    /\ sheetPc = "place"
    /\ sheetArgs.fn = "multiple"
    /\ LET x == CellX(layout, sheetArgs.spacing, col)
           y == CellY(layout, sheetArgs.spacing, row)
           n == Len(sheetArgs.passport_images)
       IN  IF photo_index >= n
           THEN /\ sheetPc' = "guides"
                /\ UNCHANGED <<row, col, photos_placed, photo_index, sheet,
                               sheetTrace>>
           ELSE IF Fits(x, y)
           THEN \/ /\ sheet' = Append(sheet,
                         [x |-> x, y |-> y,
                          im |-> cell_photo(
                                   sheetArgs.passport_images[photo_index + 1]),
                          row |-> row, col |-> col])
                   /\ photos_placed' = photos_placed + 1
                   /\ photo_index' = photo_index + 1
                   /\ AfterCell(photo_index + 1 >= n)
                   /\ UNCHANGED sheetTrace
                \/ /\ SheetFault("paste")
                   /\ UNCHANGED <<row, col, photos_placed, photo_index, sheet>>
           ELSE /\ AfterCell(FALSE)
                /\ UNCHANGED <<photos_placed, photo_index, sheet, sheetTrace>>
    /\ UNCHANGED <<sheetArgs, caller_images, photo, layout, guides, pdf,
                   cropVars, colorVars, pipeVars, gridVars, enhVars, svcVars>>

\* if add_cut_lines: sheet = add_cutting_guides(...), which catches its own
\* exceptions and returns the sheet with the lines drawn so far
GuidesStage ==
    /\ sheetPc = "guides"
    /\ LET lines == GuideLines(layout, sheetArgs.spacing)
       IN  IF ~sheetArgs.add_cut_lines
           THEN UNCHANGED <<guides, sheetTrace>>
           ELSE \/ /\ guides' = lines
                   /\ UNCHANGED sheetTrace
                \/ \E k \in 0..Len(lines) :
                      /\ guides' = SubSeq(lines, 1, k)
                      /\ sheetTrace' = Append(sheetTrace, "guides")
    /\ sheetPc' = "pdf"
    /\ UNCHANGED <<sheetArgs, caller_images, photo, layout, row, col,
                   photos_placed, photo_index, sheet, pdf, cropVars,
                   colorVars, pipeVars, gridVars, enhVars, svcVars>>

\* pdf_buffer = create_pdf_from_image(sheet); return pdf_buffer.  Its own
\* except clause returns create_empty_pdf()
PdfStage ==
    /\ sheetPc = "pdf"
    /\ \/ /\ pdf' = SheetPage(sheet, guides)
          /\ sheetPc' = "done"
          /\ UNCHANGED sheetTrace
       \/ /\ SheetFault("pdf")
          /\ UNCHANGED pdf
    /\ UNCHANGED <<sheetArgs, caller_images, photo, layout, row, col,
                   photos_placed, photo_index, sheet, guides, cropVars,
                   colorVars, pipeVars, gridVars, enhVars, svcVars>>

\* create_empty_pdf: the error page; when its own rendering raises, the
\* except clause passes and the buffer is returned as it is
EmptyPdfStage ==
    /\ sheetPc = "empty_pdf"
    /\ \/ /\ pdf' = ErrorPage
          /\ UNCHANGED sheetTrace
       \/ /\ pdf' = EmptyBuffer
          /\ sheetTrace' = Append(sheetTrace, "empty_pdf")
    /\ sheetPc' = "done"
    /\ UNCHANGED <<sheetArgs, caller_images, photo, layout, row, col,
                   photos_placed, photo_index, sheet, guides, cropVars,
                   colorVars, pipeVars, gridVars, enhVars, svcVars>>


(***************************************************************************)
(* validate_image on its own                                               *)
(***************************************************************************)
\* what a call of validate_image gives its caller: the tuple the body
\* returns, or the tuple of the except clause when reading the pixels
\* raised (the two size tests read img.size only and come first)
validate_call(im, fault) ==
    LET v == validate_image(im)
    IN  IF fault /\ v.msg \notin {"too small", "too large"}
        THEN [raised |-> FALSE, ok |-> FALSE, msg |-> "validation error"]
        ELSE [raised |-> FALSE, ok |-> v.ok, msg |-> v.msg]

\* widths and heights at and next to the two limits, and the test sizes
ValidateDims ==
    {100, MIN_SIZE - 1, MIN_SIZE, MIN_SIZE + 1, 400, MAX_SIZE - 1, MAX_SIZE,
     MAX_SIZE + 1}

\* the tiles: the flat grey and the flat red of the tests, two greys
\* 18 and 20 apart (standard deviation 9 and 10 when both occur equally
\* often), a two by one pattern with transparency
ValidateTiles ==
    { NewImage("RGB", 1, 1, <<128, 128, 128>>),
      NewImage("RGB", 1, 1, <<255, 0, 0>>),
      MakeImage(2, 1, "RGB",
          [p \in Coords(2, 1) |->
              IF p[1] = 0 THEN <<119, 119, 119, 255>>
              ELSE <<137, 137, 137, 255>>]),
      MakeImage(2, 1, "RGB",
          [p \in Coords(2, 1) |->
              IF p[1] = 0 THEN <<118, 118, 118, 255>>
              ELSE <<138, 138, 138, 255>>]),
      MakeImage(2, 1, "RGBA",
          [p \in Coords(2, 1) |-> <<60 * p[1], 90, 30, 128>>]) }

ValidateInputs ==
    [im : {TiledImage(w, h, t) : w \in ValidateDims, h \in ValidateDims,
                                 t \in ValidateTiles},
     fault : BOOLEAN]

NoVerdict == [raised |-> FALSE, ok |-> FALSE, msg |-> "none"]

InitIdleValidate ==
    /\ valPc = "idle"
    /\ valIn = [im |-> NoImage, fault |-> FALSE]
    /\ valOut = NoVerdict

InitValidate ==
    /\ valPc = "call"
    /\ valIn \in ValidateInputs
    /\ valOut = NoVerdict

ValidateCall ==
    /\ valPc = "call"
    /\ valOut' = validate_call(valIn.im, valIn.fault)
    /\ valPc' = "done"
    /\ UNCHANGED <<valIn, cropVars, colorVars, pipeVars, gridVars, enhVars,
                   sheetVars, reqVars, rlVars, conVars>>

(***************************************************************************)
(* POST /process                                                           *)
(*                                                                         *)
(* A content type is <<type, subtype>>; the body is its length and whether *)
(* PIL can decode it.                                                      *)
(***************************************************************************)
MAX_UPLOAD_SIZE == 8388608      \* MAX_SIZE = 8 * 1024 * 1024 in main.py

HttpResponse(status, detail) == [status |-> status, detail |-> detail]

NoResponse == HttpResponse(0, "none")

ContentTypes ==
    {<<"image", "jpeg">>, <<"image", "png">>, <<"text", "plain">>,
     <<"application", "pdf">>}

\* bytes no decoder accepts of every length; an image of an ordinary
\* length and of the two lengths at the limit
Bodies ==
    [size : {0, 20, MAX_UPLOAD_SIZE, MAX_UPLOAD_SIZE + 1},
     decodable : {FALSE}]
    \cup [size : {20, MAX_UPLOAD_SIZE, MAX_UPLOAD_SIZE + 1},
          decodable : {TRUE}]

ProcessRequests ==
    [content_type : ContentTypes, body : Bodies, make_a4 : BOOLEAN,
     crop_given : BOOLEAN, save_raises : BOOLEAN]

InitIdleProcess ==
    /\ reqPc = "idle"
    /\ reqIn = [content_type |-> <<"image", "png">>,
                body |-> [size |-> 0, decodable |-> FALSE],
                make_a4 |-> FALSE, crop_given |-> FALSE,
                save_raises |-> FALSE]
    /\ reqOut = NoResponse

InitProcess ==
    /\ reqPc = "check_type"
    /\ reqIn \in ProcessRequests
    /\ reqOut = NoResponse

\* what the handler answers when Image.open raises: the status of the
\* HTTPException its except clause raises
decode_error_status == 500

\* if not file.content_type.startswith("image/"): raise HTTPException(400)
ProcessCheckType ==
    /\ reqPc = "check_type"
    /\ IF reqIn.content_type[1] # "image"
       THEN /\ reqOut' = HttpResponse(400, "File must be an image")
            /\ reqPc' = "done"
       ELSE /\ reqPc' = "read"
            /\ UNCHANGED reqOut
    /\ UNCHANGED <<reqIn, cropVars, colorVars, pipeVars, gridVars, enhVars,
                   sheetVars, valVars, rlVars, conVars>>

\* contents = await file.read(); if len(contents) > MAX_SIZE: raise 400
ProcessReadBody ==
    /\ reqPc = "read"
    /\ IF reqIn.body.size > MAX_UPLOAD_SIZE
       THEN /\ reqOut' = HttpResponse(400, "File size too large")
            /\ reqPc' = "done"
       ELSE /\ reqPc' = "decode"
            /\ UNCHANGED reqOut
    /\ UNCHANGED <<reqIn, cropVars, colorVars, pipeVars, gridVars, enhVars,
                   sheetVars, valVars, rlVars, conVars>>

\* try: image = Image.open(io.BytesIO(contents)) ...; an exception goes to
\* the handler's except clause
ProcessDecode ==
    /\ reqPc = "decode"
    /\ IF reqIn.body.decodable
       THEN /\ reqPc' = "run"
            /\ UNCHANGED reqOut
       ELSE /\ reqOut' = HttpResponse(decode_error_status,
                                      "Image processing failed")
            /\ reqPc' = "done"
    /\ UNCHANGED <<reqIn, cropVars, colorVars, pipeVars, gridVars, enhVars,
                   sheetVars, valVars, rlVars, conVars>>

\* crop_data; result_img = process_passport_photo(...), which returns an
\* image whatever happens inside
ProcessRun ==
    /\ reqPc = "run"
    /\ reqPc' = "respond"
    /\ UNCHANGED <<reqIn, reqOut, cropVars, colorVars, pipeVars, gridVars,
                   enhVars, sheetVars, valVars, rlVars, conVars>>

\* the sheet or the PNG, base64 in a JSONResponse; an exception while the
\* answer is built goes to the except clause
ProcessRespond ==
    /\ reqPc = "respond"
    /\ reqOut' = IF reqIn.save_raises
                 THEN HttpResponse(500, "Image processing failed")
                 ELSE IF reqIn.make_a4 THEN HttpResponse(200, "PDF")
                 ELSE HttpResponse(200, "PNG")
    /\ reqPc' = "done"
    /\ UNCHANGED <<reqIn, cropVars, colorVars, pipeVars, gridVars, enhVars,
                   sheetVars, valVars, rlVars, conVars>>

(***************************************************************************)
(* RateLimitMiddleware                                                     *)
(*                                                                         *)
(* time.time() is an integer clock that never runs backwards; self.clients *)
(* is a function from the keys seen so far to their timestamp lists.       *)
(***************************************************************************)
MaxCalls    == 2    \* self.calls ranges over 0..MaxCalls
MaxPeriod   == 2    \* self.period ranges over 1..MaxPeriod
MaxTime     == 4    \* the clock runs from 0 to MaxTime
MaxRequests == 4    \* requests served by the instance

ClientKeys == {"10.0.0.1", "10.0.0.2"}

\* the list comprehension that drops the old entries
clean_old_entries(stamps, current_time, period) ==
    LET fresh(timestamp) == current_time - timestamp < period
    IN  SelectSeq(stamps, fresh)

\* _is_rate_limited that appends before it tests the limit
_is_rate_limited_eager(cl, client_ip, current_time, cfg) ==
    LET known   == IF client_ip \in DOMAIN cl THEN cl[client_ip] ELSE <<>>
        cleaned == Append(clean_old_entries(known, current_time, cfg.period),
                          current_time)
    IN  [limited |-> Len(cleaned) > cfg.calls,
         clients |-> [k \in DOMAIN cl \cup {client_ip} |->
                         IF k = client_ip THEN cleaned ELSE cl[k]]]

\* _is_rate_limited: the answer and self.clients after the call
_is_rate_limited(cl, client_ip, current_time, cfg) ==
    LET known   == IF client_ip \in DOMAIN cl THEN cl[client_ip] ELSE <<>>
        cleaned == clean_old_entries(known, current_time, cfg.period)
        limited == Len(cleaned) >= cfg.calls
        kept    == IF limited THEN cleaned ELSE Append(cleaned, current_time)
    IN  [limited |-> limited,
         clients |-> [k \in DOMAIN cl \cup {client_ip} |->
                         IF k = client_ip THEN kept ELSE cl[k]]]

NoClients == [k \in {} |-> <<>>]

InitIdleRateLimit ==
    /\ rlCfg = [calls |-> 0, period |-> 1]
    /\ clients = NoClients
    /\ now = -1
    /\ rlLog = <<>>

InitRateLimit ==
    /\ rlCfg \in [calls : 0..MaxCalls, period : 1..MaxPeriod]
    /\ clients = NoClients
    /\ now = 0
    /\ rlLog = <<>>

\* time passes between two requests
Tick ==
    /\ now >= 0
    /\ now < MaxTime
    /\ now' = now + 1
    /\ UNCHANGED <<rlCfg, clients, rlLog, cropVars, colorVars, pipeVars,
                   gridVars, enhVars, sheetVars, valVars, reqVars, conVars>>

\* dispatch: 429 when _is_rate_limited answers True, else call_next; the
\* header helpers afterwards only read self.clients
Dispatch ==
    /\ now >= 0
    /\ Len(rlLog) < MaxRequests
    /\ \E client_ip \in ClientKeys :
          LET r == _is_rate_limited(clients, client_ip, now, rlCfg)
          IN  /\ clients' = r.clients
              /\ rlLog' = Append(rlLog, [client |-> client_ip, t |-> now,
                                         status |-> IF r.limited THEN 429
                                                    ELSE 200])
    /\ UNCHANGED <<rlCfg, now, cropVars, colorVars, pipeVars, gridVars,
                   enhVars, sheetVars, valVars, reqVars, conVars>>

(***************************************************************************)
(* Concurrent invocations                                                  *)
(*                                                                         *)
(* An invocation is [fn, arg, pc, loc, result]: loc holds its locals.      *)
(* What the capabilities answer is part of arg, so that a run can be       *)
(* repeated.  module holds the module-level names of process_photo.py;     *)
(* a4_generator.py has module-level constants only.                        *)
(***************************************************************************)
NumCalls == 2     \* invocations in flight at the same time

PhotoArgs ==
    [pil_img : {InputImage(2, 1, "rgba_column")},
     bg_color : {StrToken(<<"b","l","u","e">>),
                 SeqToken("tuple", <<<<"int", 0>>, <<"bad", 0>>,
                                     <<"int", 0>>>>)},
     enhance_quality : {TRUE}, brightness : {3}, contrast : {FactorDen},
     matting : {"column", "fault"}]

SingleArgs ==
    [passport_img : {InputImage(1, 1, "rgb_gradient")},
     copies : {4}, margin : {DEFAULT_MARGIN},
     spacing : {DEFAULT_SPACING, -600}, add_cut_lines : {TRUE}]

NewCall(fn, arg) ==
    [fn |-> fn, arg |-> arg, pc |-> "start", loc |-> <<>>,
     result |-> NoResult]

\* a module in which a failed matting switches rembg off for later calls
module_after_disable(m, c) ==
    IF c.fn = "photo" /\ c.pc = "matte" /\ c.arg.matting = "fault"
    THEN [m EXCEPT !.REMBG_AVAILABLE = FALSE]
    ELSE m

\* the module-level names after a step of invocation c: no statement of
\* either file assigns one
module_after(m, c) == m

\* one statement of process_passport_photo on the locals of c; detection
\* finds no face
photo_step(c, m) ==
    LET l == c.loc
    IN  CASE c.pc = "start" ->
               [c EXCEPT !.pc = "crop",
                         !.loc = [img |-> Convert(c.arg.pil_img, "RGBA")]]
          [] c.pc = "crop" ->
               [c EXCEPT !.pc = "matte",
                         !.loc = [img |-> l.img,
                                  cropped |-> center_crop(l.img)]]
          [] c.pc = "matte" ->
               [c EXCEPT !.pc = "composite",
                         !.loc = [cropped |-> l.cropped,
                                  fg |-> remove_background_rembg(l.cropped,
                                           IF m.REMBG_AVAILABLE
                                           THEN c.arg.matting
                                           ELSE "unavailable")]]
          [] c.pc = "composite" ->
               LET parsed == _parse_color(c.arg.bg_color)
               IN  IF parsed.raised THEN [c EXCEPT !.pc = "except"]
                   ELSE [c EXCEPT !.pc = "rgb",
                                  !.loc = [composed |-> alpha_composite(
                                      NewImage("RGBA", l.fg.w, l.fg.h,
                                               parsed.rgba), l.fg)]]
          [] c.pc = "rgb" ->
               [c EXCEPT !.pc = "resize",
                         !.loc = [final_rgb |-> enhance_image_quality(
                                     Convert(l.composed, "RGB"),
                                     c.arg.brightness, c.arg.contrast,
                                     "none")]]
          [] c.pc = "resize" ->
               [c EXCEPT !.pc = "done", !.result = Resize(l.final_rgb)]
          [] c.pc = "except" ->
               [c EXCEPT !.pc = "done",
                         !.result = Resize(Convert(c.arg.pil_img, "RGB"))]

\* one statement, or one pass through the loop body, of make_a4_sheet on
\* the locals of c
single_step(c) ==
    LET l == c.loc
        a == c.arg
    IN  CASE c.pc = "start" ->
               LET lay == calculate_grid_layout(A4_WIDTH_PX, A4_HEIGHT_PX,
                              PASSPORT_SIZE_PX, a.margin, a.spacing)
               IN  IF lay.raised THEN [c EXCEPT !.pc = "empty_pdf"]
                   ELSE [c EXCEPT !.pc = "place",
                            !.loc = [photo |-> cell_photo(a.passport_img),
                                     layout |-> lay, row |-> 0, col |-> 0,
                                     sheet |-> <<>>]]
          [] c.pc = "place" ->
               LET x == CellX(l.layout, a.spacing, l.col)
                   y == CellY(l.layout, a.spacing, l.row)
                   pasted == IF Fits(x, y)
                             THEN Append(l.sheet, [x |-> x, y |-> y,
                                      im |-> l.photo, row |-> l.row,
                                      col |-> l.col])
                             ELSE l.sheet
               IN  IF Len(l.sheet) >= a.copies THEN [c EXCEPT !.pc = "pdf"]
                   ELSE IF l.col + 1 < l.layout.cols
                   THEN [c EXCEPT !.loc.sheet = pasted,
                                  !.loc.col = l.col + 1]
                   ELSE IF Len(pasted) >= a.copies
                           \/ l.row + 1 >= l.layout.rows
                   THEN [c EXCEPT !.loc.sheet = pasted, !.pc = "pdf"]
                   ELSE [c EXCEPT !.loc.sheet = pasted, !.loc.col = 0,
                                  !.loc.row = l.row + 1]
          [] c.pc = "pdf" ->
               [c EXCEPT !.pc = "done",
                         !.result = SheetPage(l.sheet,
                             IF a.add_cut_lines
                             THEN GuideLines(l.layout, a.spacing)
                             ELSE <<>>)]
          [] c.pc = "empty_pdf" ->
               [c EXCEPT !.pc = "done", !.result = ErrorPage]

call_step(c, m) == IF c.fn = "photo" THEN photo_step(c, m) ELSE single_step(c)

InitIdleConcurrent ==
    /\ module = [REMBG_AVAILABLE |-> FALSE]
    /\ calls = <<>>

InitConcurrent ==
    /\ module \in [REMBG_AVAILABLE : BOOLEAN]
    /\ \E a \in [1..NumCalls -> PhotoArgs], b \in [1..NumCalls -> SingleArgs],
          f \in [1..NumCalls -> {"photo", "single"}] :
          calls = [i \in 1..NumCalls |->
                     [start_module |-> module] @@
                     NewCall(f[i], IF f[i] = "photo" THEN a[i] ELSE b[i])]

\* the thread of a process_passport_photo invocation runs one statement
PhotoCallStep ==
    /\ \E i \in DOMAIN calls :
          /\ calls[i].fn = "photo"
          /\ calls[i].pc # "done"
          /\ calls' = [calls EXCEPT ![i] = call_step(calls[i], module)]
          /\ module' = module_after(module, calls[i])
    /\ UNCHANGED <<cropVars, colorVars, pipeVars, gridVars, enhVars,
                   sheetVars, valVars, reqVars, rlVars>>

\* the thread of a make_a4_sheet invocation runs one statement
SingleCallStep ==
    /\ \E i \in DOMAIN calls :
          /\ calls[i].fn = "single"
          /\ calls[i].pc # "done"
          /\ calls' = [calls EXCEPT ![i] = call_step(calls[i], module)]
          /\ module' = module_after(module, calls[i])
    /\ UNCHANGED <<cropVars, colorVars, pipeVars, gridVars, enhVars,
                   sheetVars, valVars, reqVars, rlVars>>

(***************************************************************************)
(* Specifications                                                          *)
(***************************************************************************)
NextCrop == CropCall
InitSpecCrop ==
    /\ InitCrop /\ InitIdleColor /\ InitIdlePipeline /\ InitIdleLayout
    /\ InitIdleEnhance /\ InitIdleSheet
    /\ InitIdleValidate /\ InitIdleProcess /\ InitIdleRateLimit
    /\ InitIdleConcurrent

SpecCrop == InitSpecCrop /\ [][NextCrop]_vars


NextColor == ColorCall
InitSpecColor ==
    /\ InitIdleCrop /\ InitColor /\ InitIdlePipeline /\ InitIdleLayout
    /\ InitIdleEnhance /\ InitIdleSheet
    /\ InitIdleValidate /\ InitIdleProcess /\ InitIdleRateLimit
    /\ InitIdleConcurrent

SpecColor == InitSpecColor /\ [][NextColor]_vars


NextPipeline ==
    \/ ConvertStage
    \/ ManualCropStage
    \/ AutoCropStage
    \/ MatteStage
    \/ CompositeStage
    \/ RgbStage
    \/ EnhanceStage
    \/ CanonicalizeStage
    \/ FallbackStage
    \/ BlankStage

InitSpecPipeline ==
    /\ InitIdleCrop /\ InitIdleColor /\ InitPipeline /\ InitIdleLayout
    /\ InitIdleEnhance /\ InitIdleSheet
    /\ InitIdleValidate /\ InitIdleProcess /\ InitIdleRateLimit
    /\ InitIdleConcurrent

SpecPipeline == InitSpecPipeline /\ [][NextPipeline]_vars


NextLayout == LayoutCall

InitSpecLayout ==
    /\ InitIdleCrop /\ InitIdleColor /\ InitIdlePipeline /\ InitLayout
    /\ InitIdleEnhance /\ InitIdleSheet
    /\ InitIdleValidate /\ InitIdleProcess /\ InitIdleRateLimit
    /\ InitIdleConcurrent

SpecLayout == InitSpecLayout /\ [][NextLayout]_vars


NextEnhance == EnhanceCall

InitSpecEnhance ==
    /\ InitIdleCrop /\ InitIdleColor /\ InitIdlePipeline /\ InitIdleLayout
    /\ InitEnhance /\ InitIdleSheet
    /\ InitIdleValidate /\ InitIdleProcess /\ InitIdleRateLimit
    /\ InitIdleConcurrent

SpecEnhance == InitSpecEnhance /\ [][NextEnhance]_vars


NextSheet ==
    \/ SingleCopyStage
    \/ MultipleCheckStage
    \/ SheetLayoutStage
    \/ PlaceSingle
    \/ PlaceMultiple
    \/ GuidesStage
    \/ PdfStage
    \/ EmptyPdfStage

InitSpecSheet ==
    /\ InitIdleCrop /\ InitIdleColor /\ InitIdlePipeline /\ InitIdleLayout
    /\ InitIdleEnhance /\ InitSheet
    /\ InitIdleValidate /\ InitIdleProcess /\ InitIdleRateLimit
    /\ InitIdleConcurrent

SpecSheet == InitSpecSheet /\ [][NextSheet]_vars


NextValidate == ValidateCall

InitSpecValidate ==
    /\ InitIdleCrop /\ InitIdleColor /\ InitIdlePipeline /\ InitIdleLayout
    /\ InitIdleEnhance /\ InitIdleSheet /\ InitValidate /\ InitIdleProcess
    /\ InitIdleRateLimit /\ InitIdleConcurrent

SpecValidate == InitSpecValidate /\ [][NextValidate]_vars


NextProcess ==
    \/ ProcessCheckType
    \/ ProcessReadBody
    \/ ProcessDecode
    \/ ProcessRun
    \/ ProcessRespond

InitSpecProcess ==
    /\ InitIdleCrop /\ InitIdleColor /\ InitIdlePipeline /\ InitIdleLayout
    /\ InitIdleEnhance /\ InitIdleSheet /\ InitIdleValidate /\ InitProcess
    /\ InitIdleRateLimit /\ InitIdleConcurrent

SpecProcess == InitSpecProcess /\ [][NextProcess]_vars


NextRateLimit ==
    \/ Tick
    \/ Dispatch

InitSpecRateLimit ==
    /\ InitIdleCrop /\ InitIdleColor /\ InitIdlePipeline /\ InitIdleLayout
    /\ InitIdleEnhance /\ InitIdleSheet /\ InitIdleValidate
    /\ InitIdleProcess /\ InitRateLimit /\ InitIdleConcurrent

SpecRateLimit == InitSpecRateLimit /\ [][NextRateLimit]_vars


NextConcurrent ==
    \/ PhotoCallStep
    \/ SingleCallStep

InitSpecConcurrent ==
    /\ InitIdleCrop /\ InitIdleColor /\ InitIdlePipeline /\ InitIdleLayout
    /\ InitIdleEnhance /\ InitIdleSheet /\ InitIdleValidate
    /\ InitIdleProcess /\ InitIdleRateLimit /\ InitConcurrent

SpecConcurrent == InitSpecConcurrent /\ [][NextConcurrent]_vars


(***************************************************************************)
(* Properties                                                              *)
(***************************************************************************)
Last(s) == s[Len(s)]

Faults(s) == {i \in 1..Len(s) : s[i] = "fault"}

IsCanonical(r) == r.w = CANON /\ r.h = CANON /\ r.mode = "RGB"

\* C1: process_passport_photo never propagates a fault: whatever stage
\* faults, control never leaves through an exception, the call is never
\* stuck before it returns, and what it returns is 600x600 in mode RGB.
C1_NeverPropagates ==
    /\ pc # "raised"
    /\ pc # "done" => ENABLED NextPipeline
    /\ pc = "done" => IsCanonical(result)

\* a run in which the pipeline and the resize of the original both faulted
C1_Witness == pc = "done" /\ Cardinality(Faults(trace)) = 2

\* C2: the emergency fallback is ordered: the pipeline's own output is
\* returned only from a run without fault; the resized original only after
\* exactly one fault, and it is the resize of the caller's image as
\* received; the blank image only after the pipeline and the resize of the
\* original have both faulted.  No stage assigns the caller's image.
C2_FallbackOrder ==
    /\ [][pil_img' = pil_img]_vars
    /\ [](pc = "done" =>
           LET n == Len(trace)
           IN  /\ Last(trace) \in {"resize", "fallback", "blank"}
               /\ Last(trace) = "resize" => Faults(trace) = {}
               /\ Last(trace) = "fallback" =>
                     /\ Faults(trace) = {n - 1}
                     /\ result = Resize(Convert(pil_img, "RGB"))
               /\ Last(trace) = "blank" =>
                     /\ Faults(trace) = {n - 2, n - 1}
                     /\ result = BlankCanon
               /\ result.origin = "new" => Last(trace) = "blank")

\* the original is returned after a rotated manual crop had replaced img
C2_Witness ==
    /\ pc = "done"
    /\ Last(trace) = "fallback"
    /\ opts.crop_data.rotation = 90
    /\ cropped # NoImage

\* C3: validation comes first: for an input validate_image rejects, no
\* crop, matte, composite or resize result is ever produced.
C3_ValidationFirst ==
    ~validate_image(pil_img).ok =>
        /\ cropped = NoImage
        /\ fg_with_alpha = NoImage
        /\ composed = NoImage
        /\ result = NoResult

CropSizeIn == crop_size(cropIn.w, cropIn.h, cropIn.scaleNum)

CropFits == CropSizeIn <= cropIn.width /\ CropSizeIn <= cropIn.height

\* C4: when the crop size fits the source on both axes the region is a
\* square of exactly that side inside the source; a window that would
\* cross an edge is shifted, not shrunk.
C4_SquareInside ==
    (cropPc = "done" /\ CropFits) =>
        /\ cropOut[3] - cropOut[1] = CropSizeIn
        /\ cropOut[4] - cropOut[2] = CropSizeIn
        /\ 0 <= cropOut[1] /\ cropOut[3] <= cropIn.width
        /\ 0 <= cropOut[2] /\ cropOut[4] <= cropIn.height

\* twice the distance from the centred window's edges to the source's
WindowInsideX ==
    /\ 2 * cropIn.x + cropIn.w - CropSizeIn >= 0
    /\ 2 * cropIn.x + cropIn.w + CropSizeIn <= 2 * cropIn.width

WindowInsideY ==
    /\ 2 * cropIn.y + cropIn.h - CropSizeIn >= 0
    /\ 2 * cropIn.y + cropIn.h + CropSizeIn <= 2 * cropIn.height

\* a fitting crop whose centred window crosses the right and bottom edges
C4_Witness ==
    /\ cropPc = "done" /\ CropFits /\ CropSizeIn >= 2
    /\ 2 * cropIn.x + cropIn.w + CropSizeIn > 2 * cropIn.width
    /\ 2 * cropIn.y + cropIn.h - CropSizeIn < 0
    /\ cropOut[3] = cropIn.width /\ cropOut[2] = 0

Abs(n) == IF n < 0 THEN 0 - n ELSE n

\* twice (region midpoint - box centre) on each axis
MidOffX == (cropOut[1] + cropOut[3]) - (2 * cropIn.x + cropIn.w)
MidOffY == (cropOut[2] + cropOut[4]) - (2 * cropIn.y + cropIn.h)

\* C5 as claimed: whenever the crop size fits, the region's midpoint is
\* within 1 px of the box centre on both axes.
C5_Centred_Original ==
    (cropPc = "done" /\ CropFits) => (Abs(MidOffX) <= 2 /\ Abs(MidOffY) <= 2)

\* C5 amended: on an axis where the window of the crop size centred on
\* the box centre lies inside the source, the region's midpoint is within
\* 1 px of the box centre on that axis.
C5_CentredWhenInside ==
    (cropPc = "done" /\ CropFits) =>
        /\ WindowInsideX => Abs(MidOffX) <= 2
        /\ WindowInsideY => Abs(MidOffY) <= 2

C5_Witness ==
    /\ cropPc = "done" /\ CropFits /\ CropSizeIn = 2
    /\ WindowInsideX /\ WindowInsideY
    /\ cropOut[1] > 0 /\ cropOut[3] < cropIn.width

\* C6: every crop region is non-empty and in bounds.
C6_NonEmptyInBounds ==
    cropPc = "done" =>
        /\ 0 <= cropOut[1] /\ cropOut[1] < cropOut[3]
        /\ cropOut[3] <= cropIn.width
        /\ 0 <= cropOut[2] /\ cropOut[2] < cropOut[4]
        /\ cropOut[4] <= cropIn.height

\* the well-formed tokens: a palette name, '#' and six hex digits, three or
\* four integers in 0..255
IsByte(e) == e[1] = "int" /\ e[2] \in 0..255

UpperHex == {"A", "B", "C", "D", "E", "F"}

IsName(c) == c.kind = "str" /\ \E p \in named_colors : p[1] = c.chars

IsHex(c) ==
    /\ c.kind = "str" /\ Len(c.chars) = 7 /\ c.chars[1] = "#"
    /\ \A i \in 2..7 : c.chars[i] \in HexDigits \cup UpperHex

IsRgb(c) ==
    /\ c.kind \in {"tuple", "list"} /\ Len(c.elems) = 3
    /\ \A i \in 1..3 : IsByte(c.elems[i])

IsRgba(c) ==
    /\ c.kind \in {"tuple", "list"} /\ Len(c.elems) = 4
    /\ \A i \in 1..4 : IsByte(c.elems[i])

WellFormed(c) == IsName(c) \/ IsHex(c) \/ IsRgb(c) \/ IsRgba(c)

\* the tokens that denote a colour: a well-formed one, or a string that is
\* a palette name or a hex colour once its case and outer blanks are dropped
Parseable(c) ==
    \/ WellFormed(c)
    \/ /\ c.kind = "str"
       /\ LET t == StrToken(Lower(Strip(c.chars)))
          IN  IsName(t) \/ IsHex(t)

\* C7: _parse_color is total: it never raises, every channel it returns
\* is in 0..255, and a token that denotes no colour yields opaque white.
C7_Total ==
    colorPc = "done" =>
        /\ ~colorOut.raised
        /\ \A i \in 1..4 : colorOut.rgba[i] \in 0..255
        /\ ~Parseable(colorIn) => colorOut.rgba = White

\* the reference mapping of the palette
RefPalette(chars) ==
    CASE chars = <<"w","h","i","t","e">> -> <<255, 255, 255, 255>>
      [] chars = <<"b","l","u","e">> -> <<0, 102, 204, 255>>
      [] chars = <<"l","i","g","h","t","_","b","l","u","e">> -> <<173, 216, 230, 255>>
      [] chars = <<"r","e","d">> -> <<204, 0, 0, 255>>
      [] chars = <<"l","i","g","h","t","_","r","e","d">> -> <<255, 182, 193, 255>>
      [] chars = <<"b","l","a","c","k">> -> <<0, 0, 0, 255>>
      [] chars = <<"g","r","a","y">> -> <<128, 128, 128, 255>>
      [] chars = <<"l","i","g","h","t","_","g","r","a","y">> -> <<211, 211, 211, 255>>

\* the value of a hex digit of either case
RefDigit(ch) ==
    CASE ch = "A" -> 10 [] ch = "B" -> 11 [] ch = "C" -> 12 [] ch = "D" -> 13
      [] ch = "E" -> 14 [] ch = "F" -> 15 [] OTHER -> HexVal(ch)

RefByte(s, i) == 16 * RefDigit(s[i]) + RefDigit(s[i + 1])

\* C8: on every well-formed token _parse_color returns the reference
\* value: the palette entry with alpha 255, the three hex bytes with alpha
\* 255, a 3-element sequence with alpha 255, a 4-element sequence as it is.
C8_Reference ==
    (colorPc = "done" /\ WellFormed(colorIn)) =>
        /\ ~colorOut.raised
        /\ IsName(colorIn) => colorOut.rgba = RefPalette(colorIn.chars)
        /\ IsHex(colorIn) =>
              colorOut.rgba = <<RefByte(colorIn.chars, 2), RefByte(colorIn.chars, 4),
                                RefByte(colorIn.chars, 6), 255>>
        /\ IsRgb(colorIn) =>
              colorOut.rgba = <<colorIn.elems[1][2], colorIn.elems[2][2],
                                colorIn.elems[3][2], 255>>
        /\ IsRgba(colorIn) =>
              colorOut.rgba = <<colorIn.elems[1][2], colorIn.elems[2][2],
                                colorIn.elems[3][2], colorIn.elems[4][2]>>

C8_Witness ==
    /\ colorPc = "done"
    /\ colorIn = StrToken(<<"#","F","F","5","7","3","3">>)
    /\ colorOut = Returned(<<255, 87, 51, 255>>)

\* C9 as claimed: every accepted token form resolves to alpha 255.
C9_Opaque_Original ==
    (colorPc = "done" /\ WellFormed(colorIn)) => colorOut.rgba[4] = 255

\* C9 amended: a name, a hex string and a 3-element sequence resolve to
\* alpha 255; a 4-element sequence resolves to the alpha it carries.
C9_OpaqueUnlessGiven ==
    (colorPc = "done" /\ WellFormed(colorIn)) =>
        /\ (IsName(colorIn) \/ IsHex(colorIn) \/ IsRgb(colorIn)) =>
              colorOut.rgba[4] = 255
        /\ IsRgba(colorIn) => colorOut.rgba[4] = colorIn.elems[4][2]

C9_Witness ==
    /\ colorPc = "done" /\ IsRgba(colorIn)
    /\ colorIn.elems[4][2] = 128 /\ colorOut.rgba[4] = 128

\* C10: when matting is unavailable or faults, the foreground handed to
\* the compositor has alpha 255 at every pixel, and the composite shows the
\* crop's own colour at every pixel.
C10_OpaqueWithoutMatte ==
    env.matting \in {"unavailable", "fault"} =>
        /\ \A p \in DOMAIN fg_with_alpha.px : fg_with_alpha.px[p][4] = 255
        /\ (pc \in {"rgb", "enhance", "resize"}) =>
              \A p \in DOMAIN composed.px :
                  \A i \in 1..3 : composed.px[p][i] = cropped.px[p][i]

\* C11: a failure of an external capability is absorbed inside the pipeline.
\* When detection faults or finds nothing the crop is the centred square and
\* control goes on to matting; when matting faults or is unavailable the
\* cut-out is the crop itself, converted, and control goes on to composite;
\* and a run in which no statement of the orchestrator itself raised ends
\* with composite, the RGB conversion, enhance when requested and the
\* resize, returning the resize of the processed crop, not the fallback.
C11_CapabilityAbsorbed ==
    /\ env.face \in {"none", "fault"} =>
          LET side == Min(img.w, img.h)
              left == (img.w - side) \div 2
              top  == (img.h - side) \div 2
          IN  /\ Len(trace) >= 2 /\ trace[2] = "crop"
              /\ Len(trace) = 2 => pc = "matte"
              /\ cropped = Crop(img, left, top, left + side, top + side)
    /\ env.matting \in {"fault", "unavailable"} =>
          /\ Len(trace) >= 3 /\ trace[3] = "matte"
          /\ Len(trace) = 3 => pc = "composite"
          /\ fg_with_alpha = Convert(cropped, "RGBA")
          /\ fg_with_alpha.px = cropped.px
    /\ (pc = "done" /\ Faults(trace) = {}) =>
          /\ trace = IF opts.enhance_quality
                     THEN <<"convert", "crop", "matte", "composite", "rgb",
                            "enhance", "resize">>
                     ELSE <<"convert", "crop", "matte", "composite", "rgb",
                            "resize">>
          /\ result = Resize(final_rgb)
          /\ result.origin = "resize"

\* detection and matting both faulted on a non-square image, enhancement was
\* requested, and the call returned the processed crop
C11_Witness ==
    /\ pc = "done"
    /\ env.face = "fault"
    /\ env.matting = "fault"
    /\ img.w # img.h
    /\ opts.enhance_quality
    /\ Last(trace) = "resize"

(***************************************************************************)
(* Properties of the sheet layout, the sheet builders and the enhancer     *)
(***************************************************************************)
\* q is the floor of n / d, for d > 0
IsFloor(q, n, d) == q * d <= n /\ n < (q + 1) * d

\* c is max(1, floor(n / d)), for d > 0
IsCount(c, n, d) == IF n >= d THEN IsFloor(c, n, d) ELSE c = 1

\* C12: for every canvas, margin and spacing and every cell size with
\* cellSize + spacing > 0, calculate_grid_layout returns without raising,
\* cols is max(1, floor((canvasWidth - 2*margin + spacing) / (cellSize +
\* spacing))), rows is the same on the height, each offset is
\* floor((canvasDimension - (count*cellSize + (count-1)*spacing)) / 2), and
\* cols and rows are at least 1.
C12_GridFormula ==
    (gridPc = "done" /\ gridIn.photo_size + gridIn.spacing > 0) =>
        LET d  == gridIn.photo_size + gridIn.spacing
            nw == gridIn.canvas_width - 2 * gridIn.margin + gridIn.spacing
            nh == gridIn.canvas_height - 2 * gridIn.margin + gridIn.spacing
            tw == gridOut.cols * gridIn.photo_size
                  + (gridOut.cols - 1) * gridIn.spacing
            th == gridOut.rows * gridIn.photo_size
                  + (gridOut.rows - 1) * gridIn.spacing
        IN  /\ ~gridOut.raised
            /\ IsCount(gridOut.cols, nw, d)
            /\ IsCount(gridOut.rows, nh, d)
            /\ IsFloor(gridOut.x_offset, gridIn.canvas_width - tw, 2)
            /\ IsFloor(gridOut.y_offset, gridIn.canvas_height - th, 2)
            /\ gridOut.cols >= 1
            /\ gridOut.rows >= 1

\* the division gives a negative column count, so max(1, .) applies and the
\* single column is wider than the canvas, while several rows fit
C12_Witness ==
    /\ gridPc = "done"
    /\ gridIn.photo_size + gridIn.spacing > 0
    /\ gridIn.canvas_width - 2 * gridIn.margin + gridIn.spacing < 0
    /\ gridOut.cols = 1
    /\ gridOut.x_offset < 0
    /\ gridOut.rows > 1

\* C19: enhance_image_quality with brightness 1.0 and contrast 1.0 returns
\* the input image, every pixel unchanged; with 1.0 on one axis only the
\* other adjustment is applied, to the input as it was handed in.
C19_UnitFactors ==
    enhPc = "done" =>
        /\ (enhIn.brightness = FactorDen /\ enhIn.contrast = FactorDen) =>
              /\ enhOut = enhIn.im
              /\ \A p \in Coords(enhIn.im.w, enhIn.im.h) :
                    enhOut.px[p] = enhIn.im.px[p]
        /\ (enhIn.fault = "none" /\ enhIn.brightness = FactorDen) =>
              enhOut = Contrast(enhIn.im, enhIn.contrast)
        /\ (enhIn.fault = "none" /\ enhIn.contrast = FactorDen) =>
              enhOut = Brightness(enhIn.im, enhIn.brightness)

\* brightness 1.0 with another contrast: the contrast changed the pixels
C19_Witness ==
    /\ enhPc = "done"
    /\ enhIn.fault = "none"
    /\ enhIn.brightness = FactorDen
    /\ enhIn.contrast # FactorDen
    /\ enhOut # enhIn.im

\* have the loops of the builder ended without a paste raising
PlacementDone ==
    \/ sheetPc \in {"guides", "pdf"}
    \/ /\ sheetPc \in {"empty_pdf", "done"}
       /\ layout # NoLayout
       /\ \A i \in 1..Len(sheetTrace) : sheetTrace[i] # "paste"

\* C13: with the default margin 60 and spacing 30 the grid on the 2480x3508
\* canvas is 3 columns by 5 rows; make_a4_sheet with copies = 12 then ends
\* its loops with exactly 12 photos placed, the rendered page holds 12, and
\* 12 is both what /process asks for and what it reports.
C13_DefaultTwelve ==
    (sheetArgs.margin = 60 /\ sheetArgs.spacing = 30) =>
        /\ layout # NoLayout => (layout.cols = 3 /\ layout.rows = 5)
        /\ (sheetArgs.fn = "single" /\ sheetArgs.copies = 12 /\ PlacementDone)
              => /\ photos_placed = 12
                 /\ Len(sheet) = 12
                 /\ pdf.kind = "sheet" => Len(pdf.pastes) = 12
        /\ process_make_a4_copies = 12
        /\ process_reported_copies = 12

\* the page of a default sheet of 12 copies was rendered
C13_Witness ==
    /\ sheetPc = "done"
    /\ sheetArgs.fn = "single"
    /\ sheetArgs.copies = 12
    /\ sheetArgs.margin = 60
    /\ sheetArgs.spacing = 30
    /\ pdf.kind = "sheet"
    /\ Len(pdf.pastes) = 12

\* the whole rectangle [x, x+600] x [y, y+600] lies inside the canvas
InCanvas(x, y) ==
    /\ x >= 0
    /\ y >= 0
    /\ x + 600 <= 2480
    /\ y + 600 <= 3508

\* C14: in both builders a photo is pasted only into a cell whose whole
\* rectangle lies inside the 2480x3508 canvas, x >= 0 and y >= 0 included.
C14_PasteInsideCanvas ==
    \A i \in 1..Len(sheet) : InCanvas(sheet[i].x, sheet[i].y)

\* the cells of the grid, <<row, col>>, and those inside the canvas
AllCells == (0..(layout.rows - 1)) \X (0..(layout.cols - 1))

InCanvasCells ==
    {c \in AllCells : InCanvas(CellX(layout, sheetArgs.spacing, c[2]),
                               CellY(layout, sheetArgs.spacing, c[1]))}

\* row-major order on cells
Before(c, d) == c[1] < d[1] \/ (c[1] = d[1] /\ c[2] < d[2])

\* the first k cells of S in row-major order
FirstCells(S, k) == {c \in S : Cardinality({d \in S : Before(d, c)}) < k}

Occupied == {<<sheet[i].row, sheet[i].col>> : i \in 1..Len(sheet)}

RowMajorPastes ==
    \A i, j \in 1..Len(sheet) :
        i < j => Before(<<sheet[i].row, sheet[i].col>>,
                        <<sheet[j].row, sheet[j].col>>)

\* C15: in make_a4_sheet, for every copies value, pastes are made in
\* row-major order, never more than max(0, copies) of them; when the loops
\* have ended the number placed is min(max(0, copies), number of in-canvas
\* cells) and the occupied cells are the first that many in-canvas cells.
C15_CopiesCount ==
    sheetArgs.fn = "single" =>
        LET want == Max(0, sheetArgs.copies)
            k    == Min(want, Cardinality(InCanvasCells))
        IN  /\ photos_placed <= want
            /\ Len(sheet) = photos_placed
            /\ RowMajorPastes
            /\ PlacementDone =>
                  /\ photos_placed = k
                  /\ Occupied = FirstCells(InCanvasCells, k)

\* C16: in make_a4_sheet_multiple the i-th paste is the i-th photo of the
\* list, pastes are made in row-major order, a cell that is skipped leaves
\* the photo index where it was, and when the loops have ended the number
\* placed is min(number of photos, number of in-canvas cells).
C16_MultipleOrder ==
    sheetArgs.fn = "multiple" =>
        LET n == Len(sheetArgs.passport_images)
            k == Min(n, Cardinality(InCanvasCells))
        IN  /\ photo_index = photos_placed
            /\ Len(sheet) = photos_placed
            /\ photos_placed <= n
            /\ \A i \in 1..Len(sheet) :
                  sheet[i].im \in {sheetArgs.passport_images[i],
                                   CellResize(sheetArgs.passport_images[i])}
            /\ RowMajorPastes
            /\ PlacementDone =>
                  /\ photos_placed = k
                  /\ Occupied = FirstCells(InCanvasCells, k)

\* C17: make_a4_sheet with copies = 0 and make_a4_sheet_multiple with an
\* empty list, when nothing raised, both return the rendered sheet page with
\* no photo on it, never the error page.
C17_EmptySheetValid ==
    ( /\ sheetPc = "done"
      /\ sheetTrace = <<>>
      /\ \/ sheetArgs.fn = "single" /\ sheetArgs.copies = 0
         \/ sheetArgs.fn = "multiple" /\ sheetArgs.passport_images = <<>> )
    => /\ pdf.kind = "sheet"
       /\ pdf.pastes = <<>>
       /\ photos_placed = 0

\* C18: document emission never fails outward: whatever raises inside, the
\* builder is never left through an exception, it always reaches its return,
\* and the returned buffer holds the rendered sheet page or the one-page
\* document with the error string.
C18_EmissionNeverFails ==
    /\ sheetPc # "raised"
    /\ sheetPc \notin {"idle", "done"} => ENABLED NextSheet
    /\ sheetPc = "done" =>
          \/ pdf.kind = "sheet"
          \/ /\ pdf.kind = "error"
             /\ pdf.text = "Error: Could not generate passport photo sheet"

\* the photo the caller handed in for the i-th paste
SourceOf(i) ==
    IF sheetArgs.fn = "single" THEN sheetArgs.passport_images[1]
    ELSE sheetArgs.passport_images[i]

\* C20: in both builders every pasted image is 600x600: a photo that is
\* already 600x600 is pasted as it was handed in, a photo of another size
\* is pasted as its resize to 600x600; the caller's images stay as they were.
C20_CellSizedPastes ==
    /\ caller_images = sheetArgs.passport_images
    /\ \A i \in 1..Len(sheet) :
          LET src == SourceOf(i)
              im  == sheet[i].im
          IN  /\ im.w = 600
              /\ im.h = 600
              /\ (src.w = 600 /\ src.h = 600) => im = src
              /\ (src.w # 600 \/ src.h # 600) =>
                    /\ im.origin = "resize"
                    /\ im.src = src
                    /\ im.mode = src.mode

\* a mixed list: the first photo was resized, the second pasted as it was
C20_Witness ==
    /\ sheetArgs.fn = "multiple"
    /\ Len(sheet) >= 2
    /\ sheet[1].im # sheetArgs.passport_images[1]
    /\ sheet[2].im = sheetArgs.passport_images[2]
    /\ pdf.kind = "sheet"

(***************************************************************************)
(* C22                                                                     *)
(***************************************************************************)
\* whether the standard deviation of the channel values of im is below 10
C22_LowContrast == StdBelow(valIn.im, 10)

\* C22 as stated: validate_image never raises and returns (False, too small)
\* when a side is below 200, otherwise (False, too large) when a side is
\* above 4000, otherwise (False, blank) when the standard deviation is below
\* 10, otherwise (True, ''), for every image
C22_FourVerdicts ==
    valPc = "done" =>
        /\ ~valOut.raised
        /\ valOut = [raised |-> FALSE] @@
             (IF valIn.im.w < 200 \/ valIn.im.h < 200
                THEN [ok |-> FALSE, msg |-> "too small"]
              ELSE IF valIn.im.w > 4000 \/ valIn.im.h > 4000
                THEN [ok |-> FALSE, msg |-> "too large"]
              ELSE IF C22_LowContrast
                THEN [ok |-> FALSE, msg |-> "blank or low contrast"]
              ELSE [ok |-> TRUE, msg |-> ""])

\* C22 amended: validate_image never raises; it returns (False, too small)
\* when a side is below 200, otherwise (False, too large) when a side is
\* above 4000, otherwise (False, validation error) when reading the pixels
\* raises, otherwise (False, blank) when the standard deviation is below 10,
\* otherwise (True, ''); sides of exactly 200 and 4000 pass the size tests
C22_FiveVerdicts ==
    valPc = "done" =>
        /\ ~valOut.raised
        /\ valOut = [raised |-> FALSE] @@
             (IF valIn.im.w < 200 \/ valIn.im.h < 200
                THEN [ok |-> FALSE, msg |-> "too small"]
              ELSE IF valIn.im.w > 4000 \/ valIn.im.h > 4000
                THEN [ok |-> FALSE, msg |-> "too large"]
              ELSE IF valIn.fault
                THEN [ok |-> FALSE, msg |-> "validation error"]
              ELSE IF C22_LowContrast
                THEN [ok |-> FALSE, msg |-> "blank or low contrast"]
              ELSE [ok |-> TRUE, msg |-> ""])
        /\ (valIn.im.w \in {200, 4000} /\ valIn.im.h \in {200, 4000}
            /\ ~valIn.fault /\ ~C22_LowContrast) => valOut.ok

C22_Witness ==
    /\ valPc = "done"
    /\ valIn.im.w = 200 /\ valIn.im.h = 4000
    /\ ~valIn.fault
    /\ valOut.ok

(***************************************************************************)
(* C23                                                                     *)
(***************************************************************************)
\* C23: a POST to /process whose file part has an image/* content type and
\* whose bytes cannot be decoded as an image (corrupted data or an empty
\* file) is answered with status 400
C23_UndecodableIs400 ==
    (/\ reqPc = "done"
     /\ reqIn.content_type[1] = "image"
     /\ ~reqIn.body.decodable) => reqOut.status = 400

(***************************************************************************)
(* C30                                                                     *)
(***************************************************************************)
\* the requests of client c served so far that were accepted
C30_Accepted(c) ==
    {i \in DOMAIN rlLog : rlLog[i].client = c /\ rlLog[i].status = 200}

\* the accepted requests of the client of request i that were less than
\* period old when request i arrived
C30_Recent(i) ==
    {j \in C30_Accepted(rlLog[i].client) :
        j < i /\ rlLog[i].t - rlLog[j].t < rlCfg.period}

\* C30: for each client key, at non-decreasing request times, every window
\* [a, a + period) holds at most `calls` accepted requests; a rejected
\* request records no timestamp (the list of a client holds the times of its
\* accepted requests less than period older than its last request, and
\* nothing else); and a request is accepted as soon as fewer than `calls`
\* accepted requests of its client are less than period old
C30_SlidingWindow ==
    /\ \A c \in ClientKeys : \A a \in (0 - MaxPeriod - 1)..(MaxTime + 1) :
          Cardinality({i \in C30_Accepted(c) :
                          a <= rlLog[i].t /\ rlLog[i].t < a + rlCfg.period})
             <= rlCfg.calls
    /\ \A i \in DOMAIN rlLog :
          rlLog[i].status = 200 <=> Cardinality(C30_Recent(i)) < rlCfg.calls
    /\ \A c \in DOMAIN clients :
          LET mine == SelectSeq(rlLog, LAMBDA e : e.client = c)
              last == mine[Len(mine)].t
              kept == SelectSeq(mine, LAMBDA e : e.status = 200
                                         /\ last - e.t < rlCfg.period)
          IN  /\ mine # <<>>
              /\ clients[c] = [k \in DOMAIN kept |-> kept[k].t]

\* a client was turned away at the limit and accepted again later
C30_Witness ==
    \E i, j \in DOMAIN rlLog :
        /\ i < j
        /\ rlLog[i].client = rlLog[j].client
        /\ rlLog[i].status = 429
        /\ rlLog[j].status = 200
        /\ rlLog[j].t - rlLog[i].t < rlCfg.period
        /\ rlCfg.calls = 2

(***************************************************************************)
(* C24                                                                     *)
(***************************************************************************)
\* the statements of a run in which nothing raised, in the order of the code
C24_Stages ==
    IF opts.enhance_quality
    THEN <<"convert", "crop", "matte", "composite", "rgb", "enhance",
           "resize">>
    ELSE <<"convert", "crop", "matte", "composite", "rgb", "resize">>

\* where control is after each number of finished statements
C24_Position ==
    IF opts.enhance_quality
    THEN <<{"convert"}, {"manual_crop", "auto_crop"}, {"matte"},
           {"composite"}, {"rgb"}, {"enhance"}, {"resize"}, {"done"}>>
    ELSE <<{"convert"}, {"manual_crop", "auto_crop"}, {"matte"},
           {"composite"}, {"rgb"}, {"resize"}, {"done"}>>

\* C24: as long as nothing has raised, the stages of process_passport_photo
\* run once each in the order crop, matte, composite, (enhance), resize:
\* what has run is a prefix of that order, control is at the next stage, a
\* stage that has not run has produced nothing, each stage worked on the
\* result of the one before it, enhance is in the order exactly when
\* enhance_quality is true, and the image returned is the 600x600 resize of
\* the last final_rgb
C24_StrictOrder ==
    (pc # "idle" /\ Faults(trace) = {}) =>
        LET n == Len(trace)
        IN  /\ n <= Len(C24_Stages)
            /\ trace = SubSeq(C24_Stages, 1, n)
            /\ pc \in C24_Position[n + 1]
            /\ n < 2 => cropped = NoImage
            /\ n < 3 => fg_with_alpha = NoImage
            /\ n < 4 => composed = NoImage
            /\ n < 5 => final_rgb = NoImage
            /\ n < Len(C24_Stages) => result = NoResult
            /\ n >= 3 => fg_with_alpha.w = cropped.w
                         /\ fg_with_alpha.h = cropped.h
            /\ n >= 4 => composed.w = fg_with_alpha.w
                         /\ composed.h = fg_with_alpha.h
            /\ n = 5 => final_rgb = Convert(composed, "RGB")
            /\ pc = "done" =>
                  /\ ("enhance" \in {trace[i] : i \in 1..n})
                        <=> opts.enhance_quality
                  /\ result = Resize(final_rgb)
                  /\ result.w = 600 /\ result.h = 600
                  /\ result.origin = "resize"

\* a run without any fault and without enhancement that has returned
C24_Witness ==
    /\ pc = "done"
    /\ Faults(trace) = {}
    /\ ~opts.enhance_quality
    /\ env.face = "box"
    /\ env.matting = "column"
    /\ Len(trace) = 6

(***************************************************************************)
(* C27                                                                     *)
(***************************************************************************)
\* C27: with no manual crop and no face box the crop is the centred square
\* of side min(width, height): left = floor((width - side) / 2), top =
\* floor((height - side) / 2), the region lies inside the image, and the
\* margins left over on opposite sides differ by at most one pixel
C27_CentredSquare ==
    (/\ ~opts.crop_data.given
     /\ env.face \in {"none", "fault"}) =>
        \E side \in 0..img.w, left \in 0..img.w, top \in 0..img.h :
            /\ side <= img.w /\ side <= img.h
            /\ side = img.w \/ side = img.h
            /\ 2 * left <= img.w - side /\ img.w - side < 2 * left + 2
            /\ 2 * top <= img.h - side /\ img.h - side < 2 * top + 2
            /\ left + side <= img.w /\ top + side <= img.h
            /\ (img.w - left - side) - left \in {0, 1}
            /\ (img.h - top - side) - top \in {0, 1}
            /\ cropped = Crop(img, left, top, left + side, top + side)
            /\ cropped.w = side /\ cropped.h = side

\* the strip four wide and one high, cropped without a face box: one pixel
\* is left over on the left and two on the right
C27_Witness ==
    /\ ~opts.crop_data.given
    /\ env.face = "none"
    /\ img.w = 4 /\ img.h = 1
    /\ cropped.w = 1
    /\ cropped.px[<<0, 0>>] = img.px[<<1, 0>>]
    /\ pc = "matte"

(***************************************************************************)
(* C25                                                                     *)
(***************************************************************************)
\* the crop size of the call, as crop_centered_square_from_bbox computes it
C25_CropSize == crop_size(cropIn.w, cropIn.h, cropIn.scaleNum)

\* C25: the crop size is max(w, h) * scale rounded to the nearest integer:
\* it is at most one half away from the product, for every box and scale
C25_RoundedCropSize ==
    cropPc = "done" =>
        /\ 2 * (ScaleDen * C25_CropSize
                - Max(cropIn.w, cropIn.h) * cropIn.scaleNum) <= ScaleDen
        /\ 2 * (Max(cropIn.w, cropIn.h) * cropIn.scaleNum
                - ScaleDen * C25_CropSize) <= ScaleDen

(***************************************************************************)
(* C26                                                                     *)
(***************************************************************************)
\* C26: the axes are clamped independently.  On an axis where the crop size
\* exceeds the extent of the source the region is [0, extent] wherever the
\* box lies; on an axis where it fits the region is exactly crop size long;
\* when it exceeds one extent and fits the other the region is not square;
\* and the call returns a region in every case
C26_IndependentAxes ==
    cropPc = "done" =>
        LET cs == C25_CropSize
        IN  /\ cs > cropIn.width =>
                  cropOut[1] = 0 /\ cropOut[3] = cropIn.width
            /\ cs > cropIn.height =>
                  cropOut[2] = 0 /\ cropOut[4] = cropIn.height
            /\ cs <= cropIn.width => cropOut[3] - cropOut[1] = cs
            /\ cs <= cropIn.height => cropOut[4] - cropOut[2] = cs
            /\ (cs > cropIn.width) # (cs > cropIn.height) =>
                  cropOut[3] - cropOut[1] # cropOut[4] - cropOut[2]
            /\ cropOut \in Int \X Int \X Int \X Int

\* a crop wider than the source and not higher than it, around a box that
\* does not touch the left edge
C26_Witness ==
    /\ cropPc = "done"
    /\ C25_CropSize > cropIn.width
    /\ C25_CropSize < cropIn.height
    /\ cropIn.x > 0 /\ cropIn.y > 0
    /\ cropOut[1] = 0 /\ cropOut[3] = cropIn.width
    /\ cropOut[2] > 0
    /\ cropOut[4] - cropOut[2] = C25_CropSize

(***************************************************************************)
(* C29                                                                     *)
(***************************************************************************)
\* at least one cell fits between the margins of a canvas of this extent
C29_OneFits(canvas) ==
    /\ gridIn.photo_size + gridIn.spacing > 0
    /\ \E q \in 1..(MaxCanvas + 2 * MaxMargin + MaxSpacing + A4_HEIGHT_PX) :
          IsFloor(q, canvas - 2 * gridIn.margin + gridIn.spacing,
                  gridIn.photo_size + gridIn.spacing)

\* the grid of count cells starting at offset lies between the margins
C29_Inside(canvas, offset, count) ==
    LET extent == count * gridIn.photo_size + (count - 1) * gridIn.spacing
    IN  /\ offset >= gridIn.margin
        /\ offset + extent <= canvas - gridIn.margin
        /\ gridIn.margin >= 0 => offset >= 0

\* C29: on an axis on which floor((canvas - 2*margin + spacing) / (cell +
\* spacing)) >= 1 with cell + spacing > 0, the centred grid stays inside the
\* margins: offset >= margin and offset + gridExtent <= canvas - margin, so
\* that the offset is non-negative when the margin is
C29_GridInsideMargins ==
    gridPc = "done" =>
        /\ C29_OneFits(gridIn.canvas_width) =>
              /\ ~gridOut.raised
              /\ C29_Inside(gridIn.canvas_width, gridOut.x_offset,
                            gridOut.cols)
        /\ C29_OneFits(gridIn.canvas_height) =>
              /\ ~gridOut.raised
              /\ C29_Inside(gridIn.canvas_height, gridOut.y_offset,
                            gridOut.rows)

\* two overlapping columns that fill the width between the margins exactly,
\* above a single row
C29_Witness ==
    /\ gridPc = "done"
    /\ C29_OneFits(gridIn.canvas_width)
    /\ C29_OneFits(gridIn.canvas_height)
    /\ gridIn.margin > 0
    /\ gridIn.spacing < 0
    /\ gridOut.cols >= 2
    /\ gridOut.rows = 1
    /\ gridOut.x_offset = gridIn.margin
    /\ gridOut.y_offset >= gridIn.margin

(***************************************************************************)
(* C28                                                                     *)
(***************************************************************************)
\* the guide line g colours a pixel of the cell pasted at p
C28_Crosses(g, p) ==
    /\ g.x1 < p.x + PASSPORT_SIZE_PX /\ p.x <= g.x2
    /\ g.y1 < p.y + PASSPORT_SIZE_PX /\ p.y <= g.y2

\* C28: for every spacing >= 0 and every margin the cut guides are cosmetic:
\* once they are drawn no guide line colours a pixel inside a cell that
\* received a photo, each line lying inside the gap between two cells
C28_GuidesCosmetic ==
    (sheetPc \in {"pdf", "done"} /\ sheetArgs.spacing >= 0) =>
        \A i \in DOMAIN guides : \A k \in DOMAIN sheet :
            ~C28_Crosses(guides[i], sheet[k])

(***************************************************************************)
(* C21                                                                     *)
(***************************************************************************)
\* what the invocation c returns when it runs from where it is to its end
\* with nothing else running, m being the module-level names
RECURSIVE C21_RunAlone(_, _)
C21_RunAlone(c, m) ==
    IF c.pc = "done" THEN c.result
    ELSE C21_RunAlone(call_step(c, m), module_after(m, c))

\* the invocation c as it was when it was called
C21_AsCalled(c) == [c EXCEPT !.pc = "start", !.loc = <<>>, !.result = NoResult]

\* a step writes the locals of one invocation and nothing else
C21_OwnLocalsOnly ==
    /\ module' = module
    /\ \E i \in DOMAIN calls :
          \A j \in DOMAIN calls \ {i} : calls'[j] = calls[j]

\* every invocation that has returned returned what it returns alone
C21_SameAsAlone ==
    \A i \in DOMAIN calls :
        calls[i].pc = "done" =>
            calls[i].result = C21_RunAlone(C21_AsCalled(calls[i]),
                                           calls[i].start_module)

\* C21: invocations of process_passport_photo and make_a4_sheet share no
\* mutable state: in every interleaving of two invocations on their own
\* images a step writes only the locals of the invocation that takes it and
\* no module-level name, and each invocation returns what it returns when
\* it runs alone
C21_NoSharedState ==
    /\ [][C21_OwnLocalsOnly]_vars
    /\ []C21_SameAsAlone

\* two photo invocations have returned; matting failed in the first one
\* only, and their results differ
C21_Witness ==
    /\ DOMAIN calls = 1..NumCalls
    /\ module.REMBG_AVAILABLE
    /\ calls[1].fn = "photo" /\ calls[2].fn = "photo"
    /\ calls[1].arg.matting = "fault" /\ calls[2].arg.matting = "column"
    /\ calls[1].arg.pil_img = calls[2].arg.pil_img
    /\ calls[1].pc = "done" /\ calls[2].pc = "done"
    /\ calls[1].result # calls[2].result

====
